---- MODULE Spec2Model ----
(***************************************************************************)
(* A model of the CorePackages extractor: the rewrite resolver, the lock   *)
(* parser, the package registry (src/extractor/src/package_registry.rs),   *)
(* the recursive license checks (Package::is_package_licensed and the      *)
(* thunk-name keyed PackageRegistry::is_package_licensed of                *)
(* sources/common) and the tree renderer.                                  *)
(*                                                                         *)
(* Strings that the code takes apart (names, versions, commits, lock       *)
(* dependency lines) are sequences of one-character strings; strings the   *)
(* code only carries around (file paths, license names) are TLA+ strings.  *)
(***************************************************************************)
EXTENDS Integers, Sequences, FiniteSets, TLC

VARIABLES
    rewrites,           \* PACKAGE_REWRITES, in the HashMap's iteration order
    packages,           \* PackageRegistry.packages: PackageRef -> Package
    iter_order,         \* the iteration order of PackageRegistry.packages
    op,                 \* the operation this run performs
    pc,                 \* "run" | "done" | "error" | "overflow"
    stack,              \* the call stack of the recursive operation
    ret,                \* the value the operation returned to its caller
    returned,           \* history: what the last call on each package returned
    root,               \* the package (ref or thunk name) the operation was called on
    metas,              \* sources/common PackageRegistry.packages: thunk name -> PackageMeta
    stream,             \* Stream.stream, as the pieces pushed to it
    indents,            \* Stream.indents
    previous_packages,  \* compute_package_tree_internal's previous_packages
    rp_in,              \* the (name, version) resolve_package is called with
    arg,                \* the argument of the function this run applies
    package_count,      \* PackageRegistry.package_count
    package_graph,      \* PackageRegistry.package_graph: the edges <<from, to>> added
    node_indexes,       \* PackageRegistry.node_indexes: PackageRef -> NodeIndex
    packages_to_write   \* the keys of extract_packages' packages_to_write map

vars == <<rewrites, packages, iter_order, op, pc, stack, ret, returned, root, metas,
          stream, indents, previous_packages, rp_in, arg, package_count, package_graph,
          node_indexes, packages_to_write>>

(***************************************************************************)
(* Bounds of the model.                                                    *)
(***************************************************************************)
\* The longest dependency list a lock declares.
MaxDeps == 2
\* The number of nested calls the thread's stack holds before it overflows.
StackLimit == 6

(***************************************************************************)
(* Characters and strings.                                                 *)
(***************************************************************************)
\* The value of In(value), value being computed once.
Let(value, In(_)) == CHOOSE out \in { In(v) : v \in {value} } : TRUE

IsUpper(c) == c \in {"A", "B", "L", "P", "M", "Q", "S", "X", "Y"}
IsLower(c) == c \in {"a", "b", "l", "u", "p", "m", "q", "s", "e", "c", "x", "y"}

ToLower(c) ==
    CASE c = "A" -> "a" [] c = "B" -> "b" [] c = "L" -> "l" [] c = "P" -> "p"
      [] c = "M" -> "m" [] c = "Q" -> "q" [] c = "S" -> "s" [] c = "X" -> "x"
      [] c = "Y" -> "y" [] OTHER -> c

IsDigit(c) == c \in {"0", "1", "2", "3", "4", "5", "6", "7", "8", "9"}

\* str::split(sep): the pieces between the separators, empty pieces kept.
Split(s, sep) ==
    LET at == { i \in 1..Len(s) : s[i] = sep }
        \* The position of the k-th separator, the ends of s standing for
        \* the one before the first and the one after the last.
        Bound(k) == IF k = 0 THEN 0
                    ELSE IF k > Cardinality(at) THEN Len(s) + 1
                    ELSE CHOOSE p \in at : Cardinality({ q \in at : q < p }) = k - 1
    IN  [k \in 1..(Cardinality(at) + 1) |-> SubSeq(s, Bound(k - 1) + 1, Bound(k) - 1)]

\* str::starts_with
StartsWith(s, prefix) ==
    /\ Len(prefix) <= Len(s)
    /\ SubSeq(s, 1, Len(prefix)) = prefix

\* str::replace(from, to) for one-character patterns.
Replace(s, from, to) == [i \in 1..Len(s) |-> IF s[i] = from THEN to ELSE s[i]]

\* convert_case's word boundary before s[i]: a lower-case letter followed by
\* an upper-case one, or the last capital of an acronym followed by a
\* lower-case letter.
WordStart(s, i) ==
    /\ i > 1
    /\ IsUpper(s[i])
    /\ \/ IsLower(s[i - 1])
       \/ IsUpper(s[i - 1]) /\ i < Len(s) /\ IsLower(s[i + 1])

IsDelimiter(c) == c \in {"-", "_", " "}

\* to_case(Case::Kebab): the words of s (split at delimiters and at case
\* boundaries, empty words dropped), lower-cased and joined with "-".
RECURSIVE KebabFrom(_, _, _, _)
KebabFrom(s, i, out, pending) ==
    IF i > Len(s) THEN out
    ELSE IF IsDelimiter(s[i]) THEN KebabFrom(s, i + 1, out, out # <<>>)
    ELSE LET break == out # <<>> /\ (pending \/ WordStart(s, i))
         IN  KebabFrom(s, i + 1,
                       out \o (IF break THEN <<"-">> ELSE <<>>) \o <<ToLower(s[i])>>,
                       FALSE)

Kebab(s) == KebabFrom(s, 1, <<>>, FALSE)

\* format_registry_name: the identity normalisation of a registry name
\* (kebab-case, the scope separator flattened to "-").
FormatRegistryName(raw) == Replace(Kebab(raw), "/", "-")

\* semver::Version::from_str accepts MAJOR.MINOR.PATCH, each a number
\* without a leading zero (pre-release and build suffixes are not used by
\* the version strings of this model).
IsNumber(t) ==
    /\ Len(t) >= 1
    /\ \A i \in 1..Len(t) : IsDigit(t[i])
    /\ Len(t) > 1 => t[1] # "0"

IsSemVer(raw) ==
    LET parts == Split(raw, ".")
    IN  Len(parts) = 3 /\ \A i \in 1..3 : IsNumber(parts[i])

\* PackageVersion::new: a semantic version when the text parses as one, a
\* commit hash otherwise.  Version::to_string prints the canonical form the
\* parser accepts, so the text is kept as it is.
PackageVersionNew(raw) ==
    [kind |-> IF IsSemVer(raw) THEN "SemVer" ELSE "Commit", text |-> raw]

\* PackageVersion::to_string
VersionToString(v) == v.text

(***************************************************************************)
(* Rewrite resolver (package_rewrite.rs).  A rule is                       *)
(* [new_source, new_version, originals], an original [name, version].      *)
(***************************************************************************)
\* A variant that compares the names only.
RuleMatchesName(rule, name, version) ==
    \E i \in 1..Len(rule.originals) : rule.originals[i].name = name

\* Whether the rule lists an original with exactly this name and version.
RuleMatches(rule, name, version) ==
    \E i \in 1..Len(rule.originals) :
        rule.originals[i].name = name /\ rule.originals[i].version = version

\* A resolve_package that reports a rewrite but hands back the pair it was
\* given.
ResolvePackageEchoes(table, name, version) ==
    IF \E r \in 1..Len(table) : RuleMatches(table[r], name, version)
    THEN <<TRUE, name, version>>
    ELSE <<FALSE, name, version>>

\* resolve_package: the replacement of the first rule, in the table's
\* iteration order, that lists the pair; the pair itself when none does.
ResolvePackage(table, name, version) ==
    IF \E r \in 1..Len(table) : RuleMatches(table[r], name, version)
    THEN LET r == CHOOSE k \in 1..Len(table) :
                      /\ RuleMatches(table[k], name, version)
                      /\ \A j \in 1..(k - 1) : ~RuleMatches(table[j], name, version)
         IN  <<TRUE, table[r].new_source, table[r].new_version>>
    ELSE <<FALSE, name, version>>

\* A resolve_package that takes the replacement's name but leaves the version
\* as it was given.
ResolvePackageOfKeepsVersion(table, name, version) ==
    Let(<<name, version>>,
        LAMBDA pair : Let(ResolvePackage(table, pair[1], pair[2]),
                          LAMBDA resolved : <<resolved[1], resolved[2], pair[2]>>))

\* resolve_package on a name and a version that are computed once.
ResolvePackageOf(table, name, version) ==
    Let(<<name, version>>, LAMBDA pair : ResolvePackage(table, pair[1], pair[2]))

(***************************************************************************)
(* Lock parser (package_lock.rs).  PackageLock.dependencies is an Option:  *)
(* <<>> is None and <<list>> is Some(list).                                *)
(***************************************************************************)
Patched == <<"<", "p", "a", "t", "c", "h", "e", "d", ">">>

\* A parser that does not know the <patched> marker: the registry name is
\* always the second token.
ParseDependencyIgnoresPatched(table, dep_string) ==
    Let(Split(dep_string, " "), LAMBDA parts :
        IF Len(parts) < 3
        THEN [ok |-> FALSE]
        ELSE Let(ResolvePackageOf(table,
                                  FormatRegistryName(parts[2]),
                                  VersionToString(PackageVersionNew(parts[3]))),
                 LAMBDA resolved :
                     [ok            |-> TRUE,
                      registry_name |-> resolved[2],
                      path_name     |-> parts[1],
                      version       |-> PackageVersionNew(resolved[3]),
                      is_rewritten  |-> resolved[1]]))

\* One dependency line: [ok |-> FALSE] when a token is missing, the
\* LockDependency otherwise.
ParseDependency(table, dep_string) ==
    Let(Split(dep_string, " "), LAMBDA parts :
        LET patched == Len(parts) >= 2 /\ parts[2] = Patched
            name_at == IF patched THEN 3 ELSE 2
        IN  IF Len(parts) < name_at + 1
            THEN [ok |-> FALSE]
            ELSE Let(ResolvePackageOf(table,
                                      FormatRegistryName(parts[name_at]),
                                      VersionToString(PackageVersionNew(parts[name_at + 1]))),
                     LAMBDA resolved :
                         [ok            |-> TRUE,
                          registry_name |-> resolved[2],
                          path_name     |-> parts[1],
                          version       |-> PackageVersionNew(resolved[3]),
                          is_rewritten  |-> resolved[1]]))

\* A parser that leaves a malformed line out and returns the others.
ParseLockDependenciesSkipsMalformed(table, lock) ==
    IF lock.dependencies = <<>>
    THEN [ok |-> FALSE, deps |-> <<>>]
    ELSE LET lines  == lock.dependencies[1]
             parsed == [i \in 1..Len(lines) |-> ParseDependency(table, lines[i])]
         IN  [ok |-> TRUE, deps |-> SelectSeq(parsed, LAMBDA d : d.ok)]

\* parse_lock_dependencies: Err when the lock declares no dependencies or
\* when a line is malformed, the list of LockDependency otherwise.
ParseLockDependencies(table, lock) ==
    IF lock.dependencies = <<>>
    THEN [ok |-> FALSE, deps |-> <<>>]
    ELSE LET lines  == lock.dependencies[1]
             parsed == [i \in 1..Len(lines) |-> ParseDependency(table, lines[i])]
         IN  IF \E i \in 1..Len(lines) : ~parsed[i].ok
             THEN [ok |-> FALSE, deps |-> <<>>]
             ELSE [ok |-> TRUE, deps |-> parsed]

\* What a caller of parse_lock_dependencies does with the outcome
\* (`if let Ok(dependencies) = ... { ... } else { ... }`): it walks the list,
\* or it takes the other branch whatever the error says.
CallerBranch(outcome) ==
    IF outcome.ok THEN [branch |-> "Ok", deps |-> outcome.deps]
    ELSE [branch |-> "else", deps |-> <<>>]

(***************************************************************************)
(* Package registry (package_registry.rs).  A lookup is an Option of a     *)
(* PackageRef: 0 is None.                                                  *)
(***************************************************************************)
\* Iterator::find over the package map: the first package, in the map's
\* iteration order, that the test accepts.
FindFirst(order, Test(_)) ==
    IF \E i \in 1..Len(order) : Test(order[i])
    THEN order[CHOOSE i \in 1..Len(order) :
                   Test(order[i]) /\ \A j \in 1..(i - 1) : ~Test(order[j])]
    ELSE 0

FindByRegistryName(pkgs, order, registry_name) ==
    LET Test(r) == pkgs[r].name.registry_name = registry_name
    IN  FindFirst(order, Test)

FindByRegistryNameAndVersion(pkgs, order, registry_name, version) ==
    LET Test(r) == /\ pkgs[r].name.registry_name = registry_name
                   /\ pkgs[r].lock.version = version
    IN  FindFirst(order, Test)

FindByCommitHash(pkgs, order, commit_hash) ==
    LET Test(r) == StartsWith(pkgs[r].lock.commit, commit_hash)
    IN  FindFirst(order, Test)

\* resolve_lock_dependency_to_package
ResolveLockDependencyToPackage(pkgs, order, dependency) ==
    LET first_guess ==
            IF dependency.version.kind = "SemVer"
            THEN FindByRegistryNameAndVersion(pkgs, order, dependency.registry_name,
                                              VersionToString(dependency.version))
            ELSE FindByCommitHash(pkgs, order, dependency.version.text)
    IN  IF first_guess # 0
        THEN first_guess
        ELSE FindByRegistryName(pkgs, order, dependency.registry_name)

\* Package::is_package_rewritten
IsPackageRewritten(table, package) ==
    ResolvePackage(table, package.name.registry_name, package.lock.version)[1]

\* A PackageName::new that splits the name the lock carries as it is and
\* kebab-cases nothing but the registry name.
PackageNameNewSplitsRaw(path_name, lock_name) ==
    LET segments == Split(lock_name, "/")
    IN  [path_name     |-> path_name,
         registry_name |-> Replace(Kebab(lock_name), "/", "-"),
         scope         |-> IF Len(segments) > 1 THEN <<segments[1]>> ELSE <<>>,
         scoped_name   |-> IF Len(segments) > 1 THEN <<segments[2]>> ELSE <<>>]

\* PackageName::new: the names of a package whose lock carries lock_name.
PackageNameNew(path_name, lock_name) ==
    LET name     == Kebab(lock_name)
        segments == Split(name, "/")
    IN  [path_name     |-> path_name,
         registry_name |-> Replace(name, "/", "-"),
         scope         |-> IF Len(segments) > 1 THEN <<segments[1]>> ELSE <<>>,
         scoped_name   |-> IF Len(segments) > 1 THEN <<segments[2]>> ELSE <<>>]

\* Path::file_name on a path given as its components: the last component,
\* None for the empty path and for a path that ends in "..".
FileName(package_path) ==
    IF package_path = <<>> \/ package_path[Len(package_path)] = ".."
    THEN <<>>
    ELSE <<package_path[Len(package_path)]>>

\* PackageName::new on a package path: Err when the path has no file name.
PackageNameNewAt(package_path, lock_name) ==
    IF FileName(package_path) = <<>>
    THEN [ok |-> FALSE]
    ELSE [ok |-> TRUE, name |-> PackageNameNew(FileName(package_path)[1], lock_name)]

(***************************************************************************)
(* License headers (license_extractor.rs).  A source is the sequence of    *)
(* its lines; a line is a sequence of characters in which the words the    *)
(* extractor looks for (`local`, `type`, `upstream`) and the words of the  *)
(* license text stand as one element each.                                 *)
(***************************************************************************)
\* str::replace(pattern, ""): the occurrences of the pattern, found from the
\* left without overlap, are removed.
RECURSIVE RemoveFrom(_, _, _)
RemoveFrom(s, pattern, i) ==
    IF i > Len(s) THEN <<>>
    ELSE IF i + Len(pattern) - 1 <= Len(s) /\ SubSeq(s, i, i + Len(pattern) - 1) = pattern
    THEN RemoveFrom(s, pattern, i + Len(pattern))
    ELSE <<s[i]>> \o RemoveFrom(s, pattern, i + 1)

Remove(s, pattern) == RemoveFrom(s, pattern, 1)

IsWhitespace(c) == c \in {" ", "\n"}

\* str::trim
Trim(s) ==
    LET kept == { i \in 1..Len(s) : ~IsWhitespace(s[i]) }
    IN  IF kept = {} THEN <<>>
        ELSE SubSeq(s, CHOOSE i \in kept : \A j \in kept : i <= j,
                       CHOOSE i \in kept : \A j \in kept : i >= j)

\* str::contains
Contains(s, pattern) ==
    \E i \in 1..(Len(s) - Len(pattern) + 1) : SubSeq(s, i, i + Len(pattern) - 1) = pattern

\* str::to_lowercase
ToLowercase(s) ==
    [i \in 1..Len(s) |-> IF s[i] = "Upstream" THEN "upstream" ELSE ToLower(s[i])]

\* Vec<String>::join(sep)
RECURSIVE Join(_, _)
Join(parts, sep) ==
    IF parts = <<>> THEN <<>>
    ELSE IF Len(parts) = 1 THEN parts[1]
    ELSE parts[1] \o <<sep>> \o Join(Tail(parts), sep)

\* trim_comment_padding
TrimCommentPadding(comment) ==
    Trim(Remove(Remove(Remove(Remove(Remove(comment, <<"*">>), <<"/">>), <<"\\">>),
                       <<"-", "-", "[", "[">>),
                <<"-", "-">>))

\* license_extractor.rs 158: the stripped line starts with `local` or `type`.
IsCodeLine(next_line) == next_line # <<>> /\ next_line[1] \in {"local", "type"}

\* license_extractor.rs 171-174
IsLicenseStart(next_line) ==
    /\ ~Contains(ToLowercase(next_line), <<"upstream">>)
    /\ next_line # <<>>

\* An end test that knows the block-comment terminator only.
IsEndTerminatorOnly(next_line) == Contains(next_line, <<"]", "]">>)

\* license_extractor.rs 181
IsEnd(next_line) == Contains(next_line, <<"]", "]">>) \/ IsCodeLine(next_line)

\* The loop of extract_license_header from line i on: the license parts
\* it has when it stops.
RECURSIVE LicenseParts(_, _, _, _)
LicenseParts(lines, i, found_start, license_parts) ==
    IF i > Len(lines) THEN license_parts
    ELSE Let(TrimCommentPadding(lines[i]), LAMBDA next_line :
             IF ~found_start
             THEN IF IsCodeLine(next_line) THEN license_parts
                  ELSE IF IsLicenseStart(next_line)
                  THEN LicenseParts(lines, i + 1, TRUE, Append(license_parts, next_line))
                  ELSE LicenseParts(lines, i + 1, FALSE, license_parts)
             ELSE IF ~IsEnd(next_line)
                  THEN LicenseParts(lines, i + 1, TRUE, Append(license_parts, next_line))
                  ELSE license_parts)

\* extract_license_header
ExtractLicenseHeader(source) == Trim(Join(LicenseParts(source, 1, FALSE, <<>>), "\n"))

\* LICENSE_SCORE_THRESHOLD, in hundredths like every score of the model.
LICENSE_SCORE_THRESHOLD == 95

\* ScriptLicense::Licensed / ScriptLicense::Unlicensed
ScriptLicensed(license_name) == [kind |-> "Licensed", name |-> license_name]
ScriptUnlicensed == [kind |-> "Unlicensed", name |-> ""]

\* A comparison that also accepts a score equal to the highest so far.
ScoreBeatsOrEquals(score, highest_score) == score >= highest_score

\* license_extractor.rs 136
ScoreBeats(score, highest_score) == score > highest_score

\* The loops of compute_header_license from reference text t of license l
\* on; texts is LICENSE_TEXTS in its iteration order, each license with the
\* scores optimize_bounds gives its reference texts against the header.
RECURSIVE ScoreLoop(_, _, _, _, _)
ScoreLoop(texts, l, t, top_license, highest_score) ==
    IF l > Len(texts) THEN top_license
    ELSE IF t > Len(texts[l].scores) THEN ScoreLoop(texts, l + 1, 1, top_license, highest_score)
    ELSE IF ScoreBeats(texts[l].scores[t], highest_score)
    THEN ScoreLoop(texts, l, t + 1, ScriptLicensed(texts[l].name), texts[l].scores[t])
    ELSE ScoreLoop(texts, l, t + 1, top_license, highest_score)

\* compute_header_license
ComputeHeaderLicense(texts) == ScoreLoop(texts, 1, 1, ScriptUnlicensed, LICENSE_SCORE_THRESHOLD)

\* compute_license_information 97-105: the license of one script.
ScriptLicenseOf(script_source, texts) ==
    IF ExtractLicenseHeader(script_source) = <<>>
    THEN ScriptUnlicensed
    ELSE ComputeHeaderLicense(texts)

(***************************************************************************)
(* Values of the license check (license_extractor.rs).                     *)
(***************************************************************************)
NoReason == [kind |-> "None", scripts |-> <<>>, dependencies |-> <<>>]

\* UnlicensedPackageReason::UnlicensedScripts
UnlicensedScripts(scripts) ==
    [kind |-> "UnlicensedScripts", scripts |-> scripts, dependencies |-> <<>>]

\* UnlicensedPackageReason::UnlicensedDependencies
UnlicensedDependencies(dependencies) ==
    [kind |-> "UnlicensedDependencies", scripts |-> <<>>, dependencies |-> dependencies]

\* PackageLicense::Licensed / PackageLicense::Unlicensed
PackageLicensed(licenses) == [kind |-> "Licensed", licenses |-> licenses, reason |-> NoReason]
PackageUnlicensed(reason) == [kind |-> "Unlicensed", licenses |-> <<>>, reason |-> reason]

\* An anyhow error: its message names the dependency that was looked for and
\* the package that declares it.
Err(dependency, version, package) ==
    [kind |-> "Err", dependency |-> dependency, version |-> version, package |-> package]

NoValue == [kind |-> "NoValue"]

\* The license names, in the order of the ScriptLicenses BTreeMap's keys.
LicenseNames == <<"Apache-2.0", "MIT">>

\* The Licensed(name) keys of a package's ScriptLicenses, in key order.
LicensesInUse(licenses) ==
    SelectSeq(LicenseNames, LAMBDA n : n \in DOMAIN licenses)

(***************************************************************************)
(* Package::is_package_licensed (package/mod.rs), one frame per call:      *)
(* [package, entered, dependencies, next, unlicensed_dependencies].        *)
(***************************************************************************)
LicenseFrame(ref) ==
    [package |-> ref, entered |-> FALSE, dependencies |-> <<>>, next |-> 1,
     unlicensed_dependencies |-> <<>>]

\* A variant that forgets the verdict of the dependency.
LicenseResumeForgets(frame, license) == [frame EXCEPT !.next = @ + 1]

\* A variant that keeps the first unlicensed dependency only.
LicenseResumeKeepFirst(frame, license) ==
    LET dep == frame.dependencies[frame.next]
    IN  [frame EXCEPT
            !.next = @ + 1,
            !.unlicensed_dependencies =
                IF license.kind = "Unlicensed" /\ @ = <<>>
                THEN Append(@, [name    |-> dep.registry_name,
                                version |-> VersionToString(dep.version),
                                reason  |-> license.reason])
                ELSE @]

\* The caller's frame after the call on its dependency returned `license`:
\* an Unlicensed dependency is pushed with its name, version and reason.
LicenseResume(frame, license) ==
    LET dep == frame.dependencies[frame.next]
    IN  [frame EXCEPT
            !.next = @ + 1,
            !.unlicensed_dependencies =
                IF license.kind = "Unlicensed"
                THEN Append(@, [name    |-> dep.registry_name,
                                version |-> VersionToString(dep.version),
                                reason  |-> license.reason])
                ELSE @]

\* The call of the top frame returns `license`: to the caller of the
\* operation when it is the outermost call, to the frame below otherwise.
LicenseReturn(license) ==
    /\ IF Len(stack) = 1
       THEN /\ pc' = "done"
            /\ ret' = license
            /\ stack' = <<>>
       ELSE /\ pc' = pc
            /\ ret' = ret
            /\ stack' = <<LicenseResume(stack[2], license)>> \o SubSeq(stack, 3, Len(stack))
    /\ returned' = (stack[1].package :> license) @@ returned
    /\ UNCHANGED <<rewrites, packages, iter_order, op, root, metas,
                   stream, indents, previous_packages, rp_in>>

\* mod.rs 97-107: the package's own scripts, then its lock's dependencies.
LicenseEnter ==
    /\ op = "license" /\ pc = "run"
    /\ ~stack[1].entered
    /\ LET package == packages[stack[1].package]
       IN  IF "Unlicensed" \in DOMAIN package.licenses
           THEN LicenseReturn(PackageUnlicensed(
                                  UnlicensedScripts(package.licenses["Unlicensed"])))
           ELSE LET parsed == ParseLockDependencies(rewrites, package.lock)
                IN  /\ stack' = [stack EXCEPT ![1].entered = TRUE,
                                              ![1].dependencies = parsed.deps]
                    /\ UNCHANGED <<rewrites, packages, iter_order, op, pc, ret, returned,
                                   root, metas, stream, indents, previous_packages,
                                   rp_in>>
    /\ UNCHANGED <<arg, package_count, package_graph, node_indexes, packages_to_write>>

\* A variant that passes over no dependency.
SkipsDependencyNever(lock_dependency) == FALSE

\* mod.rs 112-116: a rewritten dependency is passed over.
SkipsDependency(lock_dependency) == lock_dependency.is_rewritten

\* mod.rs 108-138: one turn of the loop over the dependencies.
LicenseDependency ==
    /\ op = "license" /\ pc = "run"
    /\ stack[1].entered
    /\ stack[1].next <= Len(stack[1].dependencies)
    /\ LET lock_dependency == stack[1].dependencies[stack[1].next]
           found == ResolveLockDependencyToPackage(packages, iter_order, lock_dependency)
       IN  IF SkipsDependency(lock_dependency)
           THEN /\ stack' = [stack EXCEPT ![1].next = @ + 1]
                /\ UNCHANGED <<pc, ret>>
           ELSE IF found = 0
           THEN /\ pc' = "error"
                /\ ret' = Err(lock_dependency.registry_name,
                            VersionToString(lock_dependency.version),
                            packages[stack[1].package].name.registry_name)
                /\ stack' = <<>>
           ELSE IF Len(stack) >= StackLimit
           THEN /\ pc' = "overflow"
                /\ UNCHANGED <<ret, stack>>
           ELSE /\ stack' = <<LicenseFrame(found)>> \o stack
                /\ UNCHANGED <<pc, ret>>
    /\ UNCHANGED <<rewrites, packages, iter_order, op, returned, root, metas,
                   stream, indents, previous_packages, rp_in>>
    /\ UNCHANGED <<arg, package_count, package_graph, node_indexes, packages_to_write>>

\* mod.rs 141-158: the verdict once every dependency was looked at.
LicenseFinish ==
    /\ op = "license" /\ pc = "run"
    /\ stack[1].entered
    /\ stack[1].next > Len(stack[1].dependencies)
    /\ IF stack[1].unlicensed_dependencies # <<>>
       THEN LicenseReturn(PackageUnlicensed(
                              UnlicensedDependencies(stack[1].unlicensed_dependencies)))
       ELSE LicenseReturn(PackageLicensed(
                              LicensesInUse(packages[stack[1].package].licenses)))
    /\ UNCHANGED <<arg, package_count, package_graph, node_indexes, packages_to_write>>

(***************************************************************************)
(* The thunk-name keyed registry of sources/common: PackageMeta            *)
(* (domain.rs) and PackageRegistry::is_package_licensed                    *)
(* (sources/common/package_registry.rs).                                   *)
(***************************************************************************)
\* The keys of DEPENDENCY_VERSION_ALIASES (constants.rs).
DependencyVersionAliases == {"Promise", "Cryo"}

\* A variant that looks at the first license only.
ContainsUnlicensedCodeFirstOnly(meta) ==
    IF meta.thunk_name \in DependencyVersionAliases
    THEN FALSE
    ELSE meta.licenses[1] = "NoLicense"

\* PackageMeta::contains_unlicensed_code
ContainsUnlicensedCode(meta) ==
    IF meta.thunk_name \in DependencyVersionAliases
    THEN FALSE
    ELSE \E i \in 1..Len(meta.licenses) : meta.licenses[i] = "NoLicense"

\* The (bool, Vec<PathBuf>) the check returns.
LegacyVerdict(licensed, unlicensed_files) ==
    [kind |-> "Verdict", licensed |-> licensed, unlicensed_files |-> unlicensed_files]

LegacyFrame(thunk_name) ==
    [package |-> thunk_name, entered |-> FALSE, next |-> 1, unlicensed_files |-> <<>>]

\* package_registry.rs 72-81: the call of the top frame of stk returns
\* (licensed, files).  Its caller extends its own list with the files and,
\* when the dependency is not licensed, returns at once in its turn.
RECURSIVE LegacyUnwind(_, _, _, _)
LegacyUnwind(stk, licensed, files, log) ==
    LET seen == (stk[1].package :> LegacyVerdict(licensed, files)) @@ log
    IN  IF Len(stk) = 1
        THEN [stack |-> <<>>, pc |-> "done", ret |-> LegacyVerdict(licensed, files),
              returned |-> seen]
        ELSE LET all == stk[2].unlicensed_files \o files
             IN  IF ~licensed
                 THEN LegacyUnwind(Tail(stk), FALSE, all, seen)
                 ELSE [stack |-> <<[stk[2] EXCEPT !.next = @ + 1,
                                                  !.unlicensed_files = all]>>
                                 \o SubSeq(stk, 3, Len(stk)),
                       pc |-> "run", ret |-> ret, returned |-> seen]

LegacyReturn(licensed, files) ==
    LET after == LegacyUnwind(stack, licensed, files, returned)
    IN  /\ stack' = after.stack
        /\ pc' = after.pc
        /\ ret' = after.ret
        /\ returned' = after.returned

\* package_registry.rs 60-69: the lookup and the package's own verdict.
LegacyEnter ==
    /\ op = "legacy" /\ pc = "run"
    /\ ~stack[1].entered
    /\ IF stack[1].package \notin DOMAIN metas
       THEN /\ pc' = "error"
            /\ ret' = Err(stack[1].package, <<>>,
                        IF Len(stack) > 1 THEN stack[2].package ELSE stack[1].package)
            /\ stack' = <<>>
            /\ UNCHANGED returned
       ELSE LET package == metas[stack[1].package]
            IN  IF ContainsUnlicensedCode(package)
                THEN LegacyReturn(FALSE, package.unlicensed_files)
                ELSE /\ stack' = [stack EXCEPT
                                     ![1].entered = TRUE,
                                     ![1].unlicensed_files = package.unlicensed_files]
                     /\ UNCHANGED <<pc, ret, returned>>
    /\ UNCHANGED <<rewrites, packages, iter_order, op, root, metas,
                   stream, indents, previous_packages, rp_in>>
    /\ UNCHANGED <<arg, package_count, package_graph, node_indexes, packages_to_write>>

\* package_registry.rs 71-74: the recursive call on the next dependency.
LegacyDependency ==
    /\ op = "legacy" /\ pc = "run"
    /\ stack[1].entered
    /\ stack[1].next <= Len(metas[stack[1].package].dependencies)
    /\ IF Len(stack) >= StackLimit
       THEN /\ pc' = "overflow"
            /\ UNCHANGED stack
       ELSE /\ stack' = <<LegacyFrame(metas[stack[1].package].dependencies[stack[1].next])>>
                        \o stack
            /\ UNCHANGED pc
    /\ UNCHANGED <<rewrites, packages, iter_order, op, ret, returned, root, metas,
                   stream, indents, previous_packages, rp_in>>
    /\ UNCHANGED <<arg, package_count, package_graph, node_indexes, packages_to_write>>

\* package_registry.rs 83: every dependency was licensed.
LegacyFinish ==
    /\ op = "legacy" /\ pc = "run"
    /\ stack[1].entered
    /\ stack[1].next > Len(metas[stack[1].package].dependencies)
    /\ LegacyReturn(TRUE, stack[1].unlicensed_files)
    /\ UNCHANGED <<rewrites, packages, iter_order, op, root, metas,
                   stream, indents, previous_packages, rp_in>>
    /\ UNCHANGED <<arg, package_count, package_graph, node_indexes, packages_to_write>>

(***************************************************************************)
(* Stream (package/stream.rs): the text is the sequence of the pieces      *)
(* pushed to it, an empty piece adding nothing.                            *)
(***************************************************************************)
\* The three box-drawing connectors, written here in ASCII; an indent that
\* is None is three spaces.
DOWN_SYMBOL == "|  "
TEE_SYMBOL == "|--"
ELL_SYMBOL == "+--"
BLANK_SYMBOL == "   "

Piece(kind, text) == [kind |-> kind, text |-> text]

\* A variant that takes every line for one that is not final.
IndentSymbolsNeverFinal(ind, final_line) ==
    [i \in 1..Len(ind) |->
        Piece("symbol",
              IF ind[i] = "None" THEN BLANK_SYMBOL
              ELSE IF i < Len(ind) THEN DOWN_SYMBOL
              ELSE TEE_SYMBOL)]

\* stream.rs 31-47: the symbols written before a line, one per indent.
IndentSymbols(ind, final_line) ==
    [i \in 1..Len(ind) |->
        Piece("symbol",
              IF ind[i] = "None" THEN BLANK_SYMBOL
              ELSE IF i < Len(ind) THEN DOWN_SYMBOL
              ELSE IF final_line THEN ELL_SYMBOL
              ELSE TEE_SYMBOL)]

\* Stream::write_line: every line of lines (the text split at "\n") goes
\* after a line break, unless the stream is still empty, and its indent.
RECURSIVE WriteLine(_, _, _, _)
WriteLine(strm, ind, lines, final_line) ==
    IF lines = <<>> THEN strm
    ELSE WriteLine(strm
                     \o (IF strm # <<>> THEN <<Piece("newline", "\n")>> ELSE <<>>)
                     \o IndentSymbols(ind, final_line)
                     \o (IF Head(lines) = <<>> THEN <<>> ELSE <<Piece("text", Head(lines))>>),
                   ind, Tail(lines), final_line)

(***************************************************************************)
(* Tree renderer (package/package_tree.rs), one frame per call of          *)
(* compute_package_tree_internal.                                          *)
(***************************************************************************)
\* package_tree.rs 33-41: the line of a package.
PackageLine(table, package) ==
    <<"core-packages/", package.name.registry_name, package.lock.version,
      IF IsPackageRewritten(table, package) THEN " (rewritten)" ELSE "">>

\* package_tree.rs 60-63: the line of a dependency that is not descended into.
ExternalLine(dependency) ==
    <<dependency.registry_name, VersionToString(dependency.version), " (external)">>

TreeFrame(ref, final_package) ==
    [package |-> ref, entered |-> FALSE, dependencies |-> <<>>, next |-> 1,
     final_package |-> final_package]

\* package_tree.rs 56: the dependencies printed as external lines.
PrintedAsExternal(dependency) == ~dependency.is_rewritten

\* A variant that remembers no package.
AlreadyAppearedNever(previous, ref) == FALSE

\* package_tree.rs 79: the package already appeared up the tree.
AlreadyAppeared(previous, ref) == \E i \in 1..Len(previous) : previous[i] = ref

\* package_tree.rs 87-98: the dependency is the last one when none follows
\* it, or when the one that follows already appeared.
IsLastDependency(frame, previous) ==
    IF frame.next < Len(frame.dependencies)
    THEN LET next_dep == frame.dependencies[frame.next + 1]
             found == FindByRegistryNameAndVersion(packages, iter_order,
                                                   next_dep.registry_name,
                                                   VersionToString(next_dep.version))
         IN  found # 0 /\ AlreadyAppeared(previous, found)
    ELSE TRUE

\* The call of the top frame returns Ok(()).
TreeReturn(stk) ==
    IF Len(stk) = 1
    THEN /\ pc' = "done"
         /\ stack' = <<>>
    ELSE /\ pc' = pc
         /\ stack' = Tail(stk)

\* package_tree.rs 45: the lock's dependencies of the package of a frame.
TreeDependencies(frame) == ParseLockDependencies(rewrites, packages[frame.package].lock)

\* package_tree.rs 30-52: the package's line, then its lock's dependencies.
TreeEnter ==
    /\ op = "tree" /\ pc = "run"
    /\ ~stack[1].entered
    /\ stream' = WriteLine(stream, indents,
                           <<PackageLine(rewrites, packages[stack[1].package])>>,
                           stack[1].final_package)
    /\ indents' = IF TreeDependencies(stack[1]).ok
                  THEN Append([indents EXCEPT ![Len(indents)] =
                                  IF stack[1].final_package THEN "None" ELSE "Some"],
                              "Some")
                  ELSE indents
    /\ IF TreeDependencies(stack[1]).ok
       THEN /\ stack' = [stack EXCEPT ![1].entered = TRUE,
                                      ![1].dependencies = TreeDependencies(stack[1]).deps]
            /\ pc' = pc
       ELSE TreeReturn(stack)
    /\ UNCHANGED <<rewrites, packages, iter_order, op, ret, returned, root, metas,
                   previous_packages, rp_in>>
    /\ UNCHANGED <<arg, package_count, package_graph, node_indexes, packages_to_write>>

\* package_tree.rs 55-111: one turn of the loop over the dependencies.
TreeDependency ==
    /\ op = "tree" /\ pc = "run"
    /\ stack[1].entered
    /\ stack[1].next <= Len(stack[1].dependencies)
    /\ LET dependency == stack[1].dependencies[stack[1].next]
           found == FindByRegistryNameAndVersion(packages, iter_order,
                                                 dependency.registry_name,
                                                 VersionToString(dependency.version))
       IN  IF PrintedAsExternal(dependency)
           THEN /\ stream' = WriteLine(stream, indents, <<ExternalLine(dependency)>>, FALSE)
                /\ stack' = [stack EXCEPT ![1].next = @ + 1]
                /\ UNCHANGED <<pc, ret, previous_packages>>
           ELSE IF found = 0
           THEN /\ pc' = "error"
                /\ ret' = Err(dependency.registry_name, VersionToString(dependency.version),
                              packages[stack[1].package].name.registry_name)
                /\ stack' = <<>>
                /\ UNCHANGED <<stream, previous_packages>>
           ELSE IF AlreadyAppeared(previous_packages, found)
           THEN /\ stack' = [stack EXCEPT ![1].next = Len(stack[1].dependencies) + 1]
                /\ UNCHANGED <<pc, ret, stream, previous_packages>>
           ELSE IF Len(stack) >= StackLimit
           THEN /\ pc' = "overflow"
                /\ UNCHANGED <<ret, stack, stream, previous_packages>>
           ELSE /\ previous_packages' = Append(previous_packages, found)
                /\ stack' = <<TreeFrame(found,
                                        IsLastDependency(stack[1],
                                                         Append(previous_packages, found)))>>
                            \o [stack EXCEPT ![1].next = @ + 1]
                /\ UNCHANGED <<pc, ret, stream>>
    /\ UNCHANGED <<rewrites, packages, iter_order, op, returned, root, metas,
                   indents, rp_in>>
    /\ UNCHANGED <<arg, package_count, package_graph, node_indexes, packages_to_write>>

\* package_tree.rs 113-116: the loop ended; the indent of the dependencies
\* is popped and the call returns.
TreeFinish ==
    /\ op = "tree" /\ pc = "run"
    /\ stack[1].entered
    /\ stack[1].next > Len(stack[1].dependencies)
    /\ indents' = SubSeq(indents, 1, Len(indents) - 1)
    /\ TreeReturn(stack)
    /\ UNCHANGED <<rewrites, packages, iter_order, op, ret, returned, root, metas,
                   stream, previous_packages, rp_in>>
    /\ UNCHANGED <<arg, package_count, package_graph, node_indexes, packages_to_write>>

(***************************************************************************)
(* Inputs: the registries and the rewrite table the operations run on.     *)
(***************************************************************************)
V100 == <<"1", ".", "0", ".", "0">>
V200 == <<"2", ".", "0", ".", "0">>
V400 == <<"4", ".", "0", ".", "0">>

\* Lock dependency lines: `path_name [<patched>] registry_name version [source]`.
DepA == <<"A", " ", "A", " ">> \o V100 \o <<" ", "u">>
DepB == <<"B", " ", "B", " ">> \o V100
DepL == <<"L", "u", "P", " ", "L", "u", "P", " ">> \o V100
DepP == <<"P", " ">> \o Patched \o <<" ", "P", " ", "8", "c", " ", "u">>
DepQ == <<"Q", " ", "Q", " ", "8", "c">>
DepM == <<"M", " ", "M", " ">> \o V100

\* The rewrite table of the license runs: `p 8c` is replaced by a package of
\* the registry, `q 8c` by a package the registry does not hold.
LicenseRewrites ==
    << [new_source |-> <<"l", "u", "-", "p">>, new_version |-> V100,
        originals |-> << [name |-> <<"p">>, version |-> <<"8", "c">>] >>],
       [new_source |-> <<"e", "/", "q">>, new_version |-> V400,
        originals |-> << [name |-> <<"q">>, version |-> <<"8", "c">>] >>] >>

\* The lists of at most n lines of menu, in the menu's order.
SubLists(menu, n) ==
    { [i \in 1..Len(ix) |-> menu[ix[i]]] :
        ix \in { f \in UNION { [1..k -> 1..Len(menu)] : k \in 0..n } :
                   \A i \in 1..(Len(f) - 1) : f[i] < f[i + 1] } }

\* PackageLock.dependencies: None, or Some of a list of lines of menu.
DependencyChoices(menu) == {<<>>} \cup { <<list>> : list \in SubLists(menu, MaxDeps) }

\* A script path below the package's directory.
Script(path_name, file) == [package |-> path_name, file |-> file]

\* ScriptLicenses as compute_license_information builds them: every key maps
\* to the non-empty list of the scripts with that verdict.
LicenseChoices(path_name) ==
    { ("MIT" :> <<Script(path_name, "a.lua")>>),
      ("MIT" :> <<Script(path_name, "a.lua")>>)
          @@ ("Unlicensed" :> <<Script(path_name, "init.lua")>>) }

\* Package::new: a package read from its directory.
PackageNew(path_name, lock, licenses) ==
    [name |-> PackageNameNew(path_name, lock.name), lock |-> lock, licenses |-> licenses]

PackageChoices(path_name, lock_name, version, commit, menu) ==
    { PackageNew(path_name,
                 [name |-> lock_name, version |-> version, commit |-> commit,
                  dependencies |-> deps],
                 licenses) :
        deps \in DependencyChoices(menu), licenses \in LicenseChoices(path_name) }

\* The registries of the license runs: three packages `a`, `b` and `lu-p`.
LicenseRegistries ==
    { <<a, b, l>> :
        a \in PackageChoices(<<"A">>, <<"A">>, V100, <<"8", "c", "5">>,
                             <<DepA, DepB, DepL, DepM, DepP, DepQ>>),
        b \in PackageChoices(<<"B">>, <<"B">>, V100, <<"8", "c", "f">>,
                             <<DepA, DepL, DepM>>),
        l \in PackageChoices(<<"L">>, <<"L", "u", "P">>, V100, <<"7", "a">>,
                             <<DepA>>) }

\* PackageMeta as populate_package_registry builds it: NoLicense is among the
\* licenses exactly when a file is unlicensed.
MetaChoices(thunk_name, menu) ==
    { [thunk_name |-> thunk_name, licenses |-> lic[1], unlicensed_files |-> lic[2],
       dependencies |-> deps] :
        deps \in SubLists(menu, MaxDeps),
        lic \in { <<(<<"MIT">>), <<>>>>,
                  <<(<<"MIT", "NoLicense">>), <<Script(thunk_name, "init.lua")>>>> } }

\* The registries of the thunk-name keyed check.
LegacyRegistries ==
    { ("A" :> a) @@ ("B" :> b) @@ ("C" :> c) @@ ("Promise" :> p) :
        a \in MetaChoices("A", <<"B", "C", "Missing", "Promise">>),
        b \in MetaChoices("B", <<"A", "Promise">>),
        c \in MetaChoices("C", <<>>),
        p \in MetaChoices("Promise", <<"A">>) }

(***************************************************************************)
(* The license checks: one call of is_package_licensed on a package of a   *)
(* registry.                                                               *)
(***************************************************************************)
InitLicense ==
    /\ rewrites = LicenseRewrites
    /\ packages \in LicenseRegistries
    /\ iter_order = <<1, 2, 3>>
    /\ op = "license"
    /\ pc = "run"
    /\ root \in 1..3
    /\ stack = <<LicenseFrame(root)>>
    /\ ret = NoValue
    /\ returned = <<>>
    /\ metas = <<>>
    /\ stream = <<>> /\ indents = <<>> /\ previous_packages = <<>> /\ rp_in = <<>>
    /\ arg = <<>> /\ package_count = 0 /\ package_graph = {} /\ node_indexes = <<>>
    /\ packages_to_write = {}

InitLegacy ==
    /\ rewrites = <<>>
    /\ packages = <<>>
    /\ iter_order = <<>>
    /\ op = "legacy"
    /\ pc = "run"
    /\ metas \in LegacyRegistries
    /\ root \in DOMAIN metas
    /\ stack = <<LegacyFrame(root)>>
    /\ ret = NoValue
    /\ returned = <<>>
    /\ stream = <<>> /\ indents = <<>> /\ previous_packages = <<>> /\ rp_in = <<>>
    /\ arg = <<>> /\ package_count = 0 /\ package_graph = {} /\ node_indexes = <<>>
    /\ packages_to_write = {}

Init == InitLicense \/ InitLegacy

Next ==
    \/ LicenseEnter
    \/ LicenseDependency
    \/ LicenseFinish
    \/ LegacyEnter
    \/ LegacyDependency
    \/ LegacyFinish

Spec == Init /\ [][Next]_vars

\* The calls run to their end: nothing else is scheduled on the thread.
FairSpec == Spec /\ WF_vars(Next)

(***************************************************************************)
(* The tree renderer: one call of compute_package_tree on a package of a   *)
(* registry.                                                               *)
(***************************************************************************)
\* Lock dependency lines the rewrite table of the tree runs replaces by the
\* packages `a` and `b` of the registry.
DepX == <<"X", " ", "X", " ", "8", "c">>
DepY == <<"Y", " ">> \o Patched \o <<" ", "Y", " ", "8", "c", " ", "u">>

TreeRewrites ==
    << [new_source |-> <<"a">>, new_version |-> V100,
        originals |-> << [name |-> <<"x">>, version |-> <<"8", "c">>] >>],
       [new_source |-> <<"b">>, new_version |-> V100,
        originals |-> << [name |-> <<"y">>, version |-> <<"8", "c">>] >>] >>
    \o LicenseRewrites

TreePackageChoices(path_name, lock_name, commit, menu) ==
    { PackageNew(path_name,
                 [name |-> lock_name, version |-> V100, commit |-> commit,
                  dependencies |-> deps],
                 ("MIT" :> <<Script(path_name, "a.lua")>>)) :
        deps \in DependencyChoices(menu) }

\* The registries of the tree runs: the packages `a`, `b` and `lu-p`, whose
\* dependencies are rewritten to each other (the renderer descends into
\* these) or name each other directly.
TreeRegistries ==
    { <<a, b, l>> :
        a \in TreePackageChoices(<<"A">>, <<"A">>, <<"8", "c", "5">>,
                                 <<DepY, DepB, DepP, DepQ>>),
        b \in TreePackageChoices(<<"B">>, <<"B">>, <<"8", "c", "f">>,
                                 <<DepL, DepP, DepX>>),
        l \in TreePackageChoices(<<"L">>, <<"L", "u", "P">>, <<"7", "a">>,
                                 <<DepX, DepY>>) }

\* Before the call of compute_package_tree.
InitTree ==
    /\ rewrites = TreeRewrites
    /\ packages = <<>>
    /\ iter_order = <<>>
    /\ op = "tree"
    /\ pc = "call"
    /\ root = 0
    /\ stack = <<>>
    /\ ret = NoValue
    /\ returned = <<>>
    /\ metas = <<>>
    /\ stream = <<>>
    /\ indents = <<>>
    /\ previous_packages = <<>>
    /\ rp_in = <<>>
    /\ arg = <<>> /\ package_count = 0 /\ package_graph = {} /\ node_indexes = <<>>
    /\ packages_to_write = {}

\* compute_package_tree (package_tree.rs 11-21) on a package of a registry:
\* an empty stream, one indent, no previous package, and the call on the
\* package with final_package false.
ComputePackageTree ==
    /\ op = "tree" /\ pc = "call"
    /\ packages' \in TreeRegistries
    /\ iter_order' = <<1, 2, 3>>
    /\ root' \in 1..3
    /\ stack' = <<TreeFrame(root', FALSE)>>
    /\ stream' = <<>>
    /\ indents' = <<"Some">>
    /\ previous_packages' = <<>>
    /\ pc' = "run"
    /\ UNCHANGED <<rewrites, op, ret, returned, metas, rp_in>>
    /\ UNCHANGED <<arg, package_count, package_graph, node_indexes, packages_to_write>>

NextTree ==
    \/ ComputePackageTree
    \/ TreeEnter
    \/ TreeDependency
    \/ TreeFinish

SpecTree == InitTree /\ [][NextTree]_vars

\* The call runs to its end: nothing else is scheduled on the thread.
FairSpecTree == SpecTree /\ WF_vars(NextTree)

(***************************************************************************)
(* The rewrite resolver: one call of resolve_package on a table.           *)
(***************************************************************************)
Original(name, version) == [name |-> name, version |-> version]

\* Tables in their iteration order: disjoint rules in both orders, two rules
\* that list the same original in both orders, a rule whose replacement is
\* itself an original, a rule without originals, and the empty table.
RewriteTables ==
    LET to_l  == [new_source |-> <<"l", "u", "-", "p">>, new_version |-> V100,
                  originals |-> <<Original(<<"p">>, <<"8", "c">>),
                                  Original(<<"q">>, <<"8", "c">>)>>]
        to_q  == [new_source |-> <<"e", "/", "q">>, new_version |-> V400,
                  originals |-> <<Original(<<"p">>, <<"8", "c">>)>>]
        chain == [new_source |-> <<"p">>, new_version |-> V100,
                  originals |-> <<Original(<<"q">>, V400)>>]
        back  == [new_source |-> <<"q">>, new_version |-> V400,
                  originals |-> <<Original(<<"p">>, V100)>>]
        none  == [new_source |-> <<"q">>, new_version |-> V100, originals |-> <<>>]
    IN  { LicenseRewrites,
          <<LicenseRewrites[2], LicenseRewrites[1]>>,
          <<to_l, to_q>>,
          <<to_q, to_l>>,
          <<chain, back>>,
          <<none>>,
          <<>> }

RewriteNames == { <<"p">>, <<"P">>, <<"q">>, <<"p", "q">> }
RewriteVersions == { <<"8", "c">>, <<"8">>, V100, V400 }

\* The tables as configured (the order of the rules in
\* package_rewrites.json) that PACKAGE_REWRITES, a HashMap with a per-process
\* random hasher, can iterate in the order `table`: the tables with the same
\* rules.
ConfiguredTables(table) ==
    { configured \in RewriteTables :
        /\ Len(configured) = Len(table)
        /\ { configured[r] : r \in 1..Len(configured) } = { table[r] : r \in 1..Len(table) } }

\* A process: rewrites is the table in the order the process iterates it,
\* arg the table as configured.
InitRewrite ==
    /\ rewrites \in RewriteTables
    /\ rp_in \in RewriteNames \X RewriteVersions
    /\ op = "rewrite"
    /\ pc = "run"
    /\ ret = NoValue
    /\ packages = <<>> /\ iter_order = <<>> /\ metas = <<>> /\ root = 0
    /\ stack = <<>> /\ returned = <<>>
    /\ stream = <<>> /\ indents = <<>> /\ previous_packages = <<>>
    /\ arg \in ConfiguredTables(rewrites)
    /\ package_count = 0 /\ package_graph = {} /\ node_indexes = <<>>
    /\ packages_to_write = {}

\* resolve_package(name, version) on the configured table.
ResolvePackageCall ==
    /\ op = "rewrite" /\ pc = "run"
    /\ ret' = ResolvePackage(rewrites, rp_in[1], rp_in[2])
    /\ pc' = "done"
    /\ UNCHANGED <<rewrites, packages, iter_order, op, stack, returned, root, metas,
                   stream, indents, previous_packages, rp_in>>
    /\ UNCHANGED <<arg, package_count, package_graph, node_indexes, packages_to_write>>

\* resolve_package on the pair the first call returned; the first result is
\* kept in returned.
ResolvePackageAgain ==
    /\ op = "rewrite" /\ pc = "done"
    /\ returned' = <<ret>>
    /\ ret' = ResolvePackage(rewrites, ret[2], ret[3])
    /\ pc' = "again"
    /\ UNCHANGED <<rewrites, packages, iter_order, op, stack, root, metas,
                   stream, indents, previous_packages, rp_in>>
    /\ UNCHANGED <<arg, package_count, package_graph, node_indexes, packages_to_write>>

NextRewrite == ResolvePackageCall \/ ResolvePackageAgain

SpecRewrite == InitRewrite /\ [][NextRewrite]_vars

(***************************************************************************)
(* extract_license_header on its own: sources of at most MaxSourceLines    *)
(* lines drawn from a menu.                                                *)
(***************************************************************************)
MaxSourceLines == 3

\* The menu: an opening `--[[`, license text in a starred line, a line of
\* stars, the terminator `]]`, license text with the terminator on its
\* line, an upstream comment in lower case and one with a capital, an empty
\* line, a closing `--  */`, a `local` line, a `type` line, a commented
\* `local` line and a `local` line that names upstream.
SourceLines ==
    { <<"-", "-", "[", "[">>,
      <<"*", " ", "M">>,
      <<" ", "*">>,
      <<"]", "]">>,
      <<"-", "-", " ", "N", " ", "]", "]">>,
      <<"-", "-", " ", "R", " ", "upstream", ":", " ", "u">>,
      <<"-", "-", " ", "Upstream">>,
      <<>>,
      <<"-", "-", " ", " ", "*", "/">>,
      <<"local", " ", "x">>,
      <<"type", " ", "T">>,
      <<"-", "-", " ", "local", " ", "x">>,
      <<"local", " ", "upstream">> }

Sources == UNION { [1..n -> SourceLines] : n \in 0..MaxSourceLines }

InitHeader ==
    /\ arg \in Sources
    /\ op = "header"
    /\ pc = "run"
    /\ ret = NoValue
    /\ rewrites = <<>>
    /\ packages = <<>> /\ iter_order = <<>> /\ metas = <<>> /\ root = 0
    /\ stack = <<>> /\ returned = <<>>
    /\ stream = <<>> /\ indents = <<>> /\ previous_packages = <<>>
    /\ rp_in = <<>> /\ package_count = 0 /\ package_graph = {} /\ node_indexes = <<>>
    /\ packages_to_write = {}

\* extract_license_header(source)
ExtractLicenseHeaderCall ==
    /\ op = "header" /\ pc = "run"
    /\ ret' = ExtractLicenseHeader(arg)
    /\ pc' = "done"
    /\ UNCHANGED <<rewrites, packages, iter_order, op, stack, returned, root, metas,
                   stream, indents, previous_packages, rp_in>>
    /\ UNCHANGED <<arg, package_count, package_graph, node_indexes, packages_to_write>>

NextHeader == ExtractLicenseHeaderCall

SpecHeader == InitHeader /\ [][NextHeader]_vars

(***************************************************************************)
(* The license of one script: a source with or without a header, and the   *)
(* scores of the reference texts of two licenses, at most MaxTexts each,   *)
(* in either iteration order of LICENSE_TEXTS.                             *)
(***************************************************************************)
MaxTexts == 2

\* Scores below, at and above the threshold.
Scores == {90, 95, 96, 100}

ScoreLists == UNION { [1..n -> Scores] : n \in 1..MaxTexts }

LicenseTexts ==
    { texts \in [1..2 -> [name : {"MIT", "Apache-2.0"}, scores : ScoreLists]] :
        texts[1].name # texts[2].name }

\* Sources with a header, with code only, with an upstream line only, and
\* the empty source.
ScriptSources ==
    { << <<"-", "-", " ", "M">>, <<"local", " ", "x">> >>,
      << <<"local", " ", "x">> >>,
      << <<"-", "-", " ", "R", " ", "upstream", ":", " ", "u">>, <<"local", " ", "x">> >>,
      <<>> }

InitScript ==
    /\ arg \in [source : ScriptSources, texts : LicenseTexts]
    /\ op = "script"
    /\ pc = "run"
    /\ ret = NoValue
    /\ rewrites = <<>>
    /\ packages = <<>> /\ iter_order = <<>> /\ metas = <<>> /\ root = 0
    /\ stack = <<>> /\ returned = <<>>
    /\ stream = <<>> /\ indents = <<>> /\ previous_packages = <<>>
    /\ rp_in = <<>> /\ package_count = 0 /\ package_graph = {} /\ node_indexes = <<>>
    /\ packages_to_write = {}

\* compute_license_information 97-105 on one script.
ScriptLicenseCall ==
    /\ op = "script" /\ pc = "run"
    /\ ret' = ScriptLicenseOf(arg.source, arg.texts)
    /\ pc' = "done"
    /\ UNCHANGED <<rewrites, packages, iter_order, op, stack, returned, root, metas,
                   stream, indents, previous_packages, rp_in>>
    /\ UNCHANGED <<arg, package_count, package_graph, node_indexes, packages_to_write>>

NextScript == ScriptLicenseCall

SpecScript == InitScript /\ [][NextScript]_vars

(***************************************************************************)
(* The collection of the packages to write (sources/local.rs):             *)
(* extract_packages calls write_dependencies_recursive on every root       *)
(* package in turn, over the thunk-name keyed registry.                    *)
(***************************************************************************)
\* The longest list of root packages.
MaxRoots == 2

\* The registries of the collection: those of the thunk-name keyed check
\* whose packages are all licensed.
WriteRegistries ==
    { registry \in LegacyRegistries :
        \A name \in DOMAIN registry : registry[name].unlicensed_files = <<>> }

\* root_packages: lists of distinct packages of the registry.
RootPackages ==
    { roots \in UNION { [1..n -> {"A", "B", "C", "Promise"}] : n \in 1..MaxRoots } :
        \A i, j \in 1..Len(roots) : roots[i] = roots[j] => i = j }

WriteFrame(thunk_name) == [package |-> thunk_name, entered |-> FALSE, next |-> 1]

\* local.rs 61-62: an empty map, and the call on the first root package.
InitWrite ==
    /\ metas \in WriteRegistries
    /\ arg \in RootPackages
    /\ root = 1
    /\ stack = <<WriteFrame(arg[1])>>
    /\ op = "write"
    /\ pc = "run"
    /\ ret = NoValue
    /\ rewrites = <<>> /\ packages = <<>> /\ iter_order = <<>>
    /\ returned = <<>>
    /\ stream = <<>> /\ indents = <<>> /\ previous_packages = <<>>
    /\ rp_in = <<>> /\ package_count = 0 /\ package_graph = {} /\ node_indexes = <<>>
    /\ packages_to_write = {}

\* local.rs 101-103: the lookup of the package; a package that is not in the
\* registry ends the whole collection with an error.
WriteEnter ==
    /\ op = "write" /\ pc = "run"
    /\ ~stack[1].entered
    /\ IF stack[1].package \notin DOMAIN metas
       THEN /\ pc' = "error"
            /\ ret' = Err(stack[1].package, <<>>,
                         IF Len(stack) > 1 THEN stack[2].package ELSE stack[1].package)
            /\ stack' = <<>>
       ELSE /\ stack' = [stack EXCEPT ![1].entered = TRUE]
            /\ UNCHANGED <<pc, ret>>
    /\ UNCHANGED <<rewrites, packages, iter_order, op, returned, root, metas,
                   stream, indents, previous_packages, rp_in>>
    /\ UNCHANGED <<arg, package_count, package_graph, node_indexes, packages_to_write>>

\* local.rs 106: the dependency is a key of packages_to_write.
AlreadyCollected(collected, thunk_name) == thunk_name \in collected

\* local.rs 105-111: one turn of the loop over the dependencies: a
\* dependency that is in the map already is passed over, any other is
\* collected by a nested call.
WriteDependency ==
    /\ op = "write" /\ pc = "run"
    /\ stack[1].entered
    /\ stack[1].next <= Len(metas[stack[1].package].dependencies)
    /\ LET thunk_name == metas[stack[1].package].dependencies[stack[1].next]
       IN  IF AlreadyCollected(packages_to_write, thunk_name)
           THEN /\ stack' = [stack EXCEPT ![1].next = @ + 1]
                /\ UNCHANGED pc
           ELSE IF Len(stack) >= StackLimit
           THEN /\ pc' = "overflow"
                /\ UNCHANGED stack
           ELSE /\ stack' = <<WriteFrame(thunk_name)>> \o [stack EXCEPT ![1].next = @ + 1]
                /\ UNCHANGED pc
    /\ UNCHANGED <<rewrites, packages, iter_order, op, ret, returned, root, metas,
                   stream, indents, previous_packages, rp_in>>
    /\ UNCHANGED <<arg, package_count, package_graph, node_indexes, packages_to_write>>

\* local.rs 113-115: the package is inserted once its dependencies are and
\* the call returns; local.rs 62-68: when it was the call on a root package,
\* the next root package is collected, and the collection ends after the
\* last.
WriteFinish ==
    /\ op = "write" /\ pc = "run"
    /\ stack[1].entered
    /\ stack[1].next > Len(metas[stack[1].package].dependencies)
    /\ packages_to_write' = packages_to_write \cup {stack[1].package}
    /\ IF Len(stack) > 1
       THEN /\ stack' = Tail(stack)
            /\ UNCHANGED <<pc, ret, root>>
       ELSE IF root < Len(arg)
       THEN /\ root' = root + 1
            /\ stack' = <<WriteFrame(arg[root + 1])>>
            /\ UNCHANGED <<pc, ret>>
       ELSE /\ pc' = "done"
            /\ ret' = [kind |-> "Ok"]
            /\ stack' = <<>>
            /\ UNCHANGED root
    /\ UNCHANGED <<rewrites, packages, iter_order, op, returned, metas,
                   stream, indents, previous_packages, rp_in>>
    /\ UNCHANGED <<arg, package_count, package_graph, node_indexes>>

NextWrite ==
    \/ WriteEnter
    \/ WriteDependency
    \/ WriteFinish

SpecWrite == InitWrite /\ [][NextWrite]_vars

(***************************************************************************)
(* Stream on its own (package/stream.rs): write_line calls interleaved     *)
(* with pushes and pops of stream.indents, a public field.                 *)
(***************************************************************************)
\* The deepest indentation and the number of write_line calls.
MaxIndents == 2
MaxWrites == 2

\* The str of a call, split at "\n": a line, the empty text, two lines.
StreamTexts == { << <<"x">> >>, << <<>> >>, << <<"x">>, <<"y">> >> }

\* Stream::new (stream.rs 18-23); arg is the number of write_line calls so
\* far and the arguments of the last one.
InitStream ==
    /\ stream = <<>>
    /\ indents = <<>>
    /\ arg = [calls |-> 0, str |-> << <<>> >>, final_line |-> FALSE]
    /\ op = "stream"
    /\ pc = "run"
    /\ ret = NoValue
    /\ rewrites = <<>>
    /\ packages = <<>> /\ iter_order = <<>> /\ metas = <<>> /\ root = 0
    /\ stack = <<>> /\ returned = <<>>
    /\ previous_packages = <<>>
    /\ rp_in = <<>> /\ package_count = 0 /\ package_graph = {} /\ node_indexes = <<>>
    /\ packages_to_write = {}

\* stream.indents.push(indent)
PushIndent ==
    /\ op = "stream"
    /\ Len(indents) < MaxIndents
    /\ \E indent \in {"Some", "None"} : indents' = Append(indents, indent)
    /\ UNCHANGED <<rewrites, packages, iter_order, op, pc, stack, ret, returned, root,
                   metas, stream, previous_packages, rp_in>>
    /\ UNCHANGED <<arg, package_count, package_graph, node_indexes, packages_to_write>>

\* stream.indents.pop()
PopIndent ==
    /\ op = "stream"
    /\ indents # <<>>
    /\ indents' = SubSeq(indents, 1, Len(indents) - 1)
    /\ UNCHANGED <<rewrites, packages, iter_order, op, pc, stack, ret, returned, root,
                   metas, stream, previous_packages, rp_in>>
    /\ UNCHANGED <<arg, package_count, package_graph, node_indexes, packages_to_write>>

\* stream.write_line(str, final_line)
WriteLineCall ==
    /\ op = "stream"
    /\ arg.calls < MaxWrites
    /\ \E str \in StreamTexts, final_line \in BOOLEAN :
          /\ stream' = WriteLine(stream, indents, str, final_line)
          /\ arg' = [calls |-> arg.calls + 1, str |-> str, final_line |-> final_line]
    /\ UNCHANGED <<rewrites, packages, iter_order, op, pc, stack, ret, returned, root,
                   metas, indents, previous_packages, rp_in>>
    /\ UNCHANGED <<package_count, package_graph, node_indexes, packages_to_write>>

NextStream ==
    \/ PushIndent
    \/ PopIndent
    \/ WriteLineCall

SpecStream == InitStream /\ [][NextStream]_vars

(***************************************************************************)
(* PackageName::new on its own: raw names over a small alphabet (a lower-   *)
(* and an upper-case letter, a delimiter, the scope separator) and package *)
(* paths with and without a file name.                                     *)
(***************************************************************************)
MaxNameLen == 4

RawNames == UNION { [1..n -> {"a", "B", "-", "/"}] : n \in 1..MaxNameLen }

PackagePaths == { <<"d", "A-1">>, <<"A-1">>, <<"d", "..">>, <<>> }

InitName ==
    /\ arg \in [package_path : PackagePaths, name : RawNames]
    /\ op = "name"
    /\ pc = "run"
    /\ ret = NoValue
    /\ rewrites = <<>>
    /\ packages = <<>> /\ iter_order = <<>> /\ metas = <<>> /\ root = 0
    /\ stack = <<>> /\ returned = <<>>
    /\ stream = <<>> /\ indents = <<>> /\ previous_packages = <<>>
    /\ rp_in = <<>> /\ package_count = 0 /\ package_graph = {} /\ node_indexes = <<>>
    /\ packages_to_write = {}

\* PackageName::new(package_path, lock)
PackageNameNewCall ==
    /\ op = "name" /\ pc = "run"
    /\ ret' = PackageNameNewAt(arg.package_path, arg.name)
    /\ pc' = "done"
    /\ UNCHANGED <<rewrites, packages, iter_order, op, stack, returned, root, metas,
                   stream, indents, previous_packages, rp_in>>
    /\ UNCHANGED <<arg, package_count, package_graph, node_indexes, packages_to_write>>

NextName == PackageNameNewCall

SpecName == InitName /\ [][NextName]_vars

(***************************************************************************)
(* The registry under construction (package_registry.rs): any number of    *)
(* discover_packages_at_index calls, then construct_graph_edges.  The      *)
(* package map is a function from PackageRef; package_graph holds the node *)
(* weights in the order of their NodeIndex (the first node has index 0)    *)
(* and the edges in the order they were added.                             *)
(***************************************************************************)
MaxPackages == 3
MaxEntries == 2

\* Packages of an index: `a` depends on `b`; `b` has no dependencies key;
\* `m` has a well-formed line and a line without a version; `q` depends on
\* `lu-p`; `lu-p` has an empty dependency list.
IndexPackage(path_name, lock_name, dependencies) ==
    PackageNew(path_name,
               [name |-> lock_name, version |-> V100, commit |-> <<"7", "a">>,
                dependencies |-> dependencies],
               ("MIT" :> <<Script(path_name, "a.lua")>>))

IndexPackages ==
    { IndexPackage(<<"A">>, <<"A">>, << <<DepB>> >>),
      IndexPackage(<<"B">>, <<"B">>, <<>>),
      IndexPackage(<<"M">>, <<"M">>, << <<DepB, <<"A", " ", "B">> >> >>),
      IndexPackage(<<"Q">>, <<"Q">>, << <<DepL>> >>),
      IndexPackage(<<"L">>, <<"L", "u", "P">>, << <<>> >>) }

\* The entries of an index directory: an entry that cannot be read, a file,
\* a directory without lock.toml, a directory whose lock.toml is there but
\* from which Package::new fails, a directory that holds a package.
IndexEntries ==
    { [kind |-> "unreadable"], [kind |-> "file"], [kind |-> "directory"],
      [kind |-> "broken", path |-> <<"X">>] }
    \cup { [kind |-> "package", package |-> package] : package \in IndexPackages }

HasLock(entry) == entry.kind \in {"broken", "package"}

\* An index directory in the order read_dir lists it; the subdirectories of
\* one directory have different names.
Indexes ==
    { entries \in UNION { [1..n -> IndexEntries] : n \in 0..MaxEntries } :
        \A j, k \in 1..Len(entries) :
            (j # k /\ HasLock(entries[j])) => entries[j] # entries[k] }

\* The registry fields after the registration of a package (lines 119-125).
Register(reg, package) ==
    LET package_ref == reg.package_count + 1
        index       == Len(reg.package_graph.nodes)
    IN  [package_count |-> reg.package_count + 1,
         packages      |-> (package_ref :> package) @@ reg.packages,
         package_graph |-> [reg.package_graph EXCEPT !.nodes = Append(@, package_ref)],
         node_indexes  |-> (package_ref :> index) @@ reg.node_indexes]

\* The loop of discover_packages_at_index from entry k on: the registry it
\* leaves and whether it ran to the end.
RECURSIVE DiscoverFrom(_, _, _)
DiscoverFrom(reg, entries, k) ==
    IF k > Len(entries) THEN [reg |-> reg, ok |-> TRUE]
    ELSE IF entries[k].kind \in {"unreadable", "file", "directory"}
    THEN DiscoverFrom(reg, entries, k + 1)
    ELSE IF entries[k].kind = "broken"
    THEN [reg |-> reg, ok |-> FALSE, path |-> entries[k].path]
    ELSE DiscoverFrom(Register(reg, entries[k].package), entries, k + 1)

\* PackageRegistry::new
InitRegistry ==
    /\ packages = <<>>
    /\ package_count = 0
    /\ package_graph = [nodes |-> <<>>, edges |-> <<>>]
    /\ node_indexes = <<>>
    /\ packages_to_write = {}
    /\ rewrites = LicenseRewrites
    /\ iter_order = <<>>
    /\ arg = [locks |-> 0, offered |-> {}]
    /\ op = "registry"
    /\ pc = "open"
    /\ ret = NoValue
    /\ metas = <<>> /\ root = 0
    /\ stack = <<>> /\ returned = <<>>
    /\ stream = <<>> /\ indents = <<>> /\ previous_packages = <<>>
    /\ rp_in = <<>>

\* The number of entries with a lock manifest.
LocksIn(entries) == Cardinality({ k \in 1..Len(entries) : HasLock(entries[k]) })

\* The packages the subdirectories of an index hold.
PackagesIn(entries) ==
    { entries[k].package : k \in { j \in 1..Len(entries) : entries[j].kind = "package" } }

\* discover_packages_at_index(index_path) on a directory that can be read;
\* arg counts the subdirectories with a lock manifest of the indexes given so
\* far and collects the packages they hold.  The registry holds at most MaxPackages packages.
DiscoverPackagesAtIndex ==
    /\ op = "registry" /\ pc = "open"
    /\ \E entries \in Indexes :
          /\ arg.locks + LocksIn(entries) <= MaxPackages
          /\ LET out == DiscoverFrom([package_count |-> package_count,
                                      packages |-> packages,
                                      package_graph |-> package_graph,
                                      node_indexes |-> node_indexes], entries, 1)
             IN  /\ package_count' = out.reg.package_count
                 /\ packages' = out.reg.packages
                 /\ package_graph' = out.reg.package_graph
                 /\ node_indexes' = out.reg.node_indexes
                 /\ ret' = IF out.ok THEN [kind |-> "Ok"]
                           ELSE [kind |-> "Err", path |-> out.path]
          /\ arg' = [locks   |-> arg.locks + LocksIn(entries),
                     offered |-> arg.offered \cup PackagesIn(entries)]
    /\ UNCHANGED <<rewrites, iter_order, op, pc, stack, returned, root, metas,
                   stream, indents, previous_packages, rp_in>>
    /\ UNCHANGED packages_to_write

\* discover_packages_at_index on a path read_dir fails on (lines 91-92).
DiscoverPackagesAtMissingIndex ==
    /\ op = "registry" /\ pc = "open"
    /\ ret' = [kind |-> "Err", path |-> <<>>]
    /\ UNCHANGED <<rewrites, packages, iter_order, op, pc, stack, returned, root, metas,
                   stream, indents, previous_packages, rp_in>>
    /\ UNCHANGED <<arg, package_count, package_graph, node_indexes, packages_to_write>>

\* The orders in which the package map can be iterated.
MapOrders(map) ==
    { order \in [1..Cardinality(DOMAIN map) -> DOMAIN map] :
        \A i, j \in 1..Cardinality(DOMAIN map) : order[i] = order[j] => i = j }

\* The inner loop of construct_graph_edges for one package: the edges it
\* adds, and the error it stops with at the first dependency that does not
\* resolve.  A lock whose dependencies do not parse adds nothing (a warning
\* is logged).
PackageEdges(pkgs, order, indexes, ref) ==
    Let(ParseLockDependencies(rewrites, pkgs[ref].lock), LAMBDA parsed :
        IF ~parsed.ok THEN [ok |-> TRUE, edges |-> <<>>]
        ELSE LET targets == [i \in 1..Len(parsed.deps) |->
                                ResolveLockDependencyToPackage(pkgs, order, parsed.deps[i])]
                 missing == { i \in 1..Len(parsed.deps) : targets[i] = 0 }
                 stop    == IF missing = {} THEN Len(parsed.deps) + 1
                            ELSE CHOOSE i \in missing : \A j \in missing : i <= j
             IN  [ok    |-> missing = {},
                  edges |-> [i \in 1..(stop - 1) |-> <<indexes[ref], indexes[targets[i]]>>],
                  error |-> IF missing = {} THEN NoValue
                            ELSE Err(parsed.deps[stop].registry_name,
                                     VersionToString(parsed.deps[stop].version),
                                     pkgs[ref].name.path_name)])

\* The outer loop of construct_graph_edges from the k-th package of the
\* iteration order on.
RECURSIVE GraphEdgesFrom(_, _, _, _, _)
GraphEdgesFrom(pkgs, order, indexes, k, edges) ==
    IF k > Len(order) THEN [ok |-> TRUE, edges |-> edges, error |-> NoValue]
    ELSE Let(PackageEdges(pkgs, order, indexes, order[k]), LAMBDA added :
             IF added.ok
             THEN GraphEdgesFrom(pkgs, order, indexes, k + 1, edges \o added.edges)
             ELSE [ok |-> FALSE, edges |-> edges \o added.edges, error |-> added.error])

\* construct_graph_edges(), the package map being iterated in any order.
ConstructGraphEdges ==
    /\ op = "registry" /\ pc = "open"
    /\ \E order \in MapOrders(packages) :
          /\ iter_order' = order
          /\ LET out == GraphEdgesFrom(packages, order, node_indexes, 1, package_graph.edges)
             IN  /\ package_graph' = [package_graph EXCEPT !.edges = out.edges]
                 /\ ret' = IF out.ok THEN [kind |-> "Ok"] ELSE out.error
    /\ pc' = "built"
    /\ UNCHANGED <<rewrites, packages, op, stack, returned, root, metas,
                   stream, indents, previous_packages, rp_in>>
    /\ UNCHANGED <<arg, package_count, node_indexes, packages_to_write>>

NextRegistry ==
    \/ DiscoverPackagesAtIndex
    \/ DiscoverPackagesAtMissingIndex
    \/ ConstructGraphEdges

SpecRegistry == InitRegistry /\ [][NextRegistry]_vars

(***************************************************************************)
(* resolve_lock_dependency_to_package on its own: registries of at most    *)
(* MaxRegistry packages, in every iteration order of the package map, and  *)
(* lock dependencies with a semantic version or a commit hash.             *)
(***************************************************************************)
MaxRegistry == 2

\* Packages without dependencies: the lookups read the registry name, the
\* lock's version and the lock's commit.
ResolvePackages ==
    { PackageNew(path, [name |-> name, version |-> version, commit |-> commit,
                        dependencies |-> <<>>],
                 ("MIT" :> <<Script(path, "a.lua")>>)) :
        path \in {<<"A">>}, name \in {<<"A">>, <<"B">>}, version \in {V100, V200},
        commit \in {<<"8", "c", "5">>, <<"7", "a">>} }

\* The orders in which a map of n packages can be iterated.
IterationOrders(n) ==
    { order \in [1..n -> 1..n] : \A i, j \in 1..n : order[i] = order[j] => i = j }

\* LockDependency values as parse_lock_dependencies builds them: a semantic
\* version, a commit hash, and the empty version token of a line that ends
\* with its separator (PackageVersion::new makes it the commit hash "").
ResolveDependencies ==
    { [registry_name |-> name, path_name |-> <<"D">>, version |-> PackageVersionNew(version),
       is_rewritten |-> FALSE] :
        name \in {<<"a">>, <<"b">>, <<"q">>},
        version \in {V100, V200, <<"8", "c">>, <<>>} }

InitResolve ==
    /\ packages \in UNION { [1..n -> ResolvePackages] : n \in 0..MaxRegistry }
    /\ iter_order \in IterationOrders(Len(packages))
    /\ arg \in ResolveDependencies
    /\ op = "resolve"
    /\ pc = "run"
    /\ ret = NoValue
    /\ rewrites = <<>> /\ metas = <<>> /\ root = 0
    /\ stack = <<>> /\ returned = <<>>
    /\ stream = <<>> /\ indents = <<>> /\ previous_packages = <<>>
    /\ rp_in = <<>> /\ package_count = 0 /\ package_graph = {} /\ node_indexes = <<>>
    /\ packages_to_write = {}

\* registry.resolve_lock_dependency_to_package(dependency): the reference of
\* the package found, 0 for None.
ResolveLockDependencyToPackageCall ==
    /\ op = "resolve" /\ pc = "run"
    /\ ret' = ResolveLockDependencyToPackage(packages, iter_order, arg)
    /\ pc' = "done"
    /\ UNCHANGED <<rewrites, packages, iter_order, op, stack, returned, root, metas,
                   stream, indents, previous_packages, rp_in>>
    /\ UNCHANGED <<arg, package_count, package_graph, node_indexes, packages_to_write>>

NextResolve == ResolveLockDependencyToPackageCall

SpecResolve == InitResolve /\ [][NextResolve]_vars

(***************************************************************************)
(* parse_lock_dependencies on its own: a lock whose dependency lines are   *)
(* drawn from a menu of well-formed and malformed lines.                   *)
(***************************************************************************)
MaxLines == 2

\* The menu: lines with and without <patched>, with and without a source,
\* rewritten and not, a path name that differs from the registry name; then
\* lines that stop before the version, a line with an empty registry token
\* and a line with an empty version token.
LockLines ==
    { DepL, DepP, DepQ, DepA,
      <<"P", " ">> \o Patched \o <<" ", "P", " ">> \o V100,
      <<"M", " ", "Q", " ", "8", "c">>,
      <<>>,
      <<"A">>,
      <<"A", " ", "B">>,
      <<"A", " ">> \o Patched,
      <<"A", " ">> \o Patched \o <<" ", "B">>,
      <<"A", " ", " ">> \o V100,
      <<"A", " ", "B", " ">> }

\* PackageLock: a lock without a dependencies key, or with a list of at most
\* MaxLines lines.
LockChoices ==
    { [name |-> <<"a">>, version |-> V100, commit |-> <<"c", "a">>, dependencies |-> d] :
        d \in {<<>>} \cup { <<lines>> : lines \in UNION { [1..n -> LockLines] : n \in 0..MaxLines } } }

InitLock ==
    /\ rewrites \in {LicenseRewrites, <<>>}
    /\ arg \in LockChoices
    /\ op = "lock"
    /\ pc = "run"
    /\ ret = NoValue
    /\ packages = <<>> /\ iter_order = <<>> /\ metas = <<>> /\ root = 0
    /\ stack = <<>> /\ returned = <<>>
    /\ stream = <<>> /\ indents = <<>> /\ previous_packages = <<>>
    /\ rp_in = <<>> /\ package_count = 0 /\ package_graph = {} /\ node_indexes = <<>>
    /\ packages_to_write = {}

\* lock.parse_lock_dependencies()
ParseLockDependenciesCall ==
    /\ op = "lock" /\ pc = "run"
    /\ ret' = ParseLockDependencies(rewrites, arg)
    /\ pc' = "done"
    /\ UNCHANGED <<rewrites, packages, iter_order, op, stack, returned, root, metas,
                   stream, indents, previous_packages, rp_in>>
    /\ UNCHANGED <<arg, package_count, package_graph, node_indexes, packages_to_write>>

NextLock == ParseLockDependenciesCall

SpecLock == InitLock /\ [][NextLock]_vars

(***************************************************************************)
(* The dependency graph the license checks walk.                           *)
(***************************************************************************)
\* The dependencies the operation descends into from package p: for the
\* license check the lock's dependencies that are not rewritten (the thunk
\* names, for a PackageMeta), for the tree renderer those that are.
CheckedDependencies(p) ==
    CASE op = "license" ->
            SelectSeq(ParseLockDependencies(rewrites, packages[p].lock).deps,
                      LAMBDA d : ~d.is_rewritten)
      [] op = "tree" ->
            SelectSeq(ParseLockDependencies(rewrites, packages[p].lock).deps,
                      LAMBDA d : ~PrintedAsExternal(d))
      [] OTHER -> metas[p].dependencies

\* The package a dependency resolves to, as a set: empty when the registry
\* holds none.
Resolution(d) ==
    CASE op = "license" ->
            {ResolveLockDependencyToPackage(packages, iter_order, d)} \ {0}
      [] op = "tree" ->
            {FindByRegistryNameAndVersion(packages, iter_order, d.registry_name,
                                          VersionToString(d.version))} \ {0}
      [] OTHER -> {d} \cap DOMAIN metas

Resolves(d) == Resolution(d) # {}

\* The package a dependency that resolves resolves to.
Resolved(d) == CHOOSE q \in Resolution(d) : TRUE

\* The elements of a sequence.
Elements(seq) == Let(seq, LAMBDA list : { list[i] : i \in 1..Len(list) })

DependencyEdges(p) == UNION { Resolution(d) : d \in Elements(CheckedDependencies(p)) }

RECURSIVE ReachFrom(_)
ReachFrom(S) ==
    LET T == S \cup UNION { DependencyEdges(p) : p \in S }
    IN  IF T = S THEN S ELSE ReachFrom(T)

\* The packages a check of p can come to, p included.
Reachable(p) == ReachFrom({p})

OnCycle(p) == p \in ReachFrom(DependencyEdges(p))

Acyclic(p) == \A q \in Reachable(p) : ~OnCycle(q)

EveryDependencyResolves(p) ==
    \A q \in Reachable(p) : \A d \in Elements(CheckedDependencies(q)) : Resolves(d)

\* The files of package p with an Unlicensed verdict.
UnlicensedFiles(p) ==
    IF op = "license"
    THEN IF "Unlicensed" \in DOMAIN packages[p].licenses
         THEN packages[p].licenses["Unlicensed"] ELSE <<>>
    ELSE metas[p].unlicensed_files

HasUnlicensedFile(p) == UnlicensedFiles(p) # <<>>

\* Whether a verdict of either check reports the package as licensed.
ReportsLicensed(verdict) ==
    IF verdict.kind = "Verdict" THEN verdict.licensed ELSE verdict.kind = "Licensed"

LicenseOps == {"license", "legacy"}

\* The thunk-name keyed check exempts the aliased (overwritten) dependencies.
AliasBypassed(p) == op = "legacy" /\ p \in DependencyVersionAliases

(***************************************************************************)
(* C1 *)
(***************************************************************************)
\* C1 (as claimed): a package with at least one Unlicensed file is never
\* reported as licensed by is_package_licensed, whatever its dependencies
\* and whatever its name.
C1_UnlicensedNeverLicensed ==
    op \in LicenseOps =>
        \A p \in DOMAIN returned :
            HasUnlicensedFile(p) => ~ReportsLicensed(returned[p])

\* C1 (amended): a package with at least one Unlicensed file is never
\* reported as licensed, whatever its dependencies, unless the check is the
\* thunk-name keyed one and the package's thunk name is a key of
\* DEPENDENCY_VERSION_ALIASES, whose own files that check passes over.
C1_UnlicensedNeverLicensedUnlessAliased ==
    op \in LicenseOps =>
        \A p \in DOMAIN returned :
            (HasUnlicensedFile(p) /\ ~AliasBypassed(p)) => ~ReportsLicensed(returned[p])

\* C1 witness: the check of a package with an unlicensed file and a
\* declared, licensed dependency ended and reported it Unlicensed.
C1_Witness ==
    /\ op = "license" /\ pc = "done"
    /\ HasUnlicensedFile(root)
    /\ CheckedDependencies(root) # <<>>
    /\ \A q \in Reachable(root) \ {root} : ~HasUnlicensedFile(q)
    /\ ret.kind = "Unlicensed"

(***************************************************************************)
(* C2 *)
(***************************************************************************)
\* Whether the check of the package the dependency resolves to returned a
\* licensed verdict.
DependencyReportedLicensed(d) ==
    /\ Resolves(d)
    /\ Resolved(d) \in DOMAIN returned
    /\ ReportsLicensed(returned[Resolved(d)])

EveryDependencyReportedLicensed(p) ==
    \A d \in Elements(CheckedDependencies(p)) : DependencyReportedLicensed(d)

\* C2 (as claimed): on an acyclic dependency graph in which every dependency
\* resolves, a package is reported licensed if and only if it has no
\* Unlicensed file and every non-rewritten dependency is reported licensed.
C2_LicensedIff ==
    op \in LicenseOps =>
        \A p \in DOMAIN returned :
            (Acyclic(p) /\ EveryDependencyResolves(p)) =>
                (ReportsLicensed(returned[p]) <=>
                    (~HasUnlicensedFile(p) /\ EveryDependencyReportedLicensed(p)))

\* C2 (amended): on an acyclic dependency graph in which every dependency
\* resolves, a package is reported licensed if and only if it has no
\* Unlicensed file, or is an aliased dependency of the thunk-name keyed
\* check, and every non-rewritten dependency is reported licensed.
C2_LicensedIffUnlessAliased ==
    op \in LicenseOps =>
        \A p \in DOMAIN returned :
            (Acyclic(p) /\ EveryDependencyResolves(p)) =>
                (ReportsLicensed(returned[p]) <=>
                    /\ ~HasUnlicensedFile(p) \/ AliasBypassed(p)
                    /\ EveryDependencyReportedLicensed(p))

\* C2 witness: a licensed verdict for a package whose licensed dependency
\* has a licensed dependency of its own.
C2_Witness ==
    /\ op = "license" /\ pc = "done"
    /\ Acyclic(root) /\ EveryDependencyResolves(root)
    /\ \E q \in DependencyEdges(root) : DependencyEdges(q) # {}
    /\ ret.kind = "Licensed"

(***************************************************************************)
(* C3 *)
(***************************************************************************)
\* The script paths a PackageLicense reason lists, at any depth.
RECURSIVE ReasonFiles(_)
ReasonFiles(reason) ==
    { reason.scripts[i] : i \in 1..Len(reason.scripts) }
        \cup UNION { ReasonFiles(reason.dependencies[i].reason) :
                        i \in 1..Len(reason.dependencies) }

\* The unlicensed files returned with a verdict.
VerdictFiles(verdict) ==
    IF verdict.kind = "Verdict"
    THEN { verdict.unlicensed_files[i] : i \in 1..Len(verdict.unlicensed_files) }
    ELSE ReasonFiles(verdict.reason)

\* The blocking files of p and of every package reachable from it.
BlockingFiles(p) ==
    UNION { { UnlicensedFiles(q)[i] : i \in 1..Len(UnlicensedFiles(q)) } :
              q \in { r \in Reachable(p) : ~AliasBypassed(r) } }

\* C3: a verdict of not licensed comes with every blocking unlicensed file
\* of the package and of the packages reachable through its non-rewritten
\* dependencies, not only those of the first unlicensed package.
C3_AllBlockingFilesReturned ==
    (op \in LicenseOps /\ pc = "done" /\ ~ReportsLicensed(ret)) =>
        BlockingFiles(root) \subseteq VerdictFiles(ret)

(***************************************************************************)
(* C4 *)
(***************************************************************************)
\* C4: is_package_licensed never recurses without end: no call nests deeper
\* than the stack holds, so every call ends with a verdict or an error.
C4_RecursionReturns == op \in LicenseOps => pc # "overflow"

\* The stack of the model holds every walk of an acyclic graph: only a
\* package that is entered again while its call is active exhausts it.
OverflowOnlyOnCycle ==
    (op \in LicenseOps /\ pc = "overflow") =>
        \E k \in 1..Len(stack) : \E j \in (k + 1)..Len(stack) :
            stack[k].package = stack[j].package

(***************************************************************************)
(* C5 *)
(***************************************************************************)
\* The package is on a cycle whose members have only licensed files and
\* depend on nothing but each other.
OnLicensedCycle(p) ==
    /\ OnCycle(p)
    /\ \A q \in Reachable(p) :
        /\ ~HasUnlicensedFile(q)
        /\ q \in ReachFrom(DependencyEdges(q))
    /\ EveryDependencyResolves(p)

Ended == pc \in {"done", "error", "overflow"}

\* C5: the check of a member of a cycle of licensed packages ends with a
\* licensed verdict and no error (the re-visited package counts as licensed).
C5_LicensedCycleIsLicensed ==
    (op \in LicenseOps /\ Ended /\ OnLicensedCycle(root)) =>
        (pc = "done" /\ ReportsLicensed(ret))

(***************************************************************************)
(* C6 *)
(***************************************************************************)
\* The lock dependencies of package p, rewritten ones included.
LockDependencies(p) == ParseLockDependencies(rewrites, packages[p].lock).deps

\* C6: the license check neither resolves nor enters a rewritten dependency:
\* every nested call is on the package a non-rewritten dependency of its
\* caller resolves to, an error names a non-rewritten dependency that is
\* missing, and a package without an unlicensed file whose dependencies are
\* all rewritten is licensed, whatever the replacements are.
C6_RewrittenDependencySkipped ==
    op = "license" =>
        /\ \A k \in 1..(Len(stack) - 1) :
              LET d == stack[k + 1].dependencies[stack[k + 1].next]
              IN  ~d.is_rewritten /\ Resolution(d) = {stack[k].package}
        /\ pc = "error" =>
              \E q \in DOMAIN packages : \E i \in 1..Len(CheckedDependencies(q)) :
                  LET d == CheckedDependencies(q)[i]
                  IN  /\ packages[q].name.registry_name = ret.package
                      /\ d.registry_name = ret.dependency
                      /\ VersionToString(d.version) = ret.version
                      /\ ~Resolves(d)
        /\ (pc = "done" /\ ~HasUnlicensedFile(root) /\ CheckedDependencies(root) = <<>>)
              => ret.kind = "Licensed"

\* C6 witness: a licensed verdict for a package with two rewritten
\* dependencies, one replaced by a package of the registry that has an
\* unlicensed file, the other by a package the registry does not hold.
C6_Witness ==
    /\ op = "license" /\ pc = "done"
    /\ ret.kind = "Licensed"
    /\ \E i \in 1..Len(LockDependencies(root)) :
          LET d == LockDependencies(root)[i]
          IN  /\ d.is_rewritten
              /\ Resolves(d)
              /\ HasUnlicensedFile(Resolved(d))
    /\ \E i \in 1..Len(LockDependencies(root)) :
          LET d == LockDependencies(root)[i]
          IN  d.is_rewritten /\ ~Resolves(d)

(***************************************************************************)
(* C7 *)
(***************************************************************************)
\* The entries the claim expects: the non-rewritten dependencies of p whose
\* own check returned Unlicensed, in declaration order.
ExpectedUnlicensedDependencies(p) ==
    LET blocked == SelectSeq(CheckedDependencies(p),
                             LAMBDA d : /\ Resolves(d)
                                        /\ Resolved(d) \in DOMAIN returned
                                        /\ returned[Resolved(d)].kind = "Unlicensed")
    IN  [i \in 1..Len(blocked) |->
            [name    |-> blocked[i].registry_name,
             version |-> VersionToString(blocked[i].version),
             reason  |-> returned[Resolved(blocked[i])].reason]]

\* C7: a package without an unlicensed file of its own, one of whose
\* non-rewritten dependencies is Unlicensed, is Unlicensed with reason
\* UnlicensedDependencies: the direct dependencies whose check is
\* Unlicensed, in declaration order, each with its name, version and own
\* reason, and none of the package's own files.
C7_UnlicensedDependenciesListed ==
    op = "license" =>
        \A p \in DOMAIN returned :
            (~HasUnlicensedFile(p) /\ ExpectedUnlicensedDependencies(p) # <<>>) =>
                returned[p] = PackageUnlicensed(
                                  UnlicensedDependencies(ExpectedUnlicensedDependencies(p)))

\* C7 witness: a verdict that lists two unlicensed dependencies, the reason
\* of one of them being an unlicensed dependency of its own.
C7_Witness ==
    /\ op = "license" /\ pc = "done"
    /\ ret.kind = "Unlicensed"
    /\ ret.reason.kind = "UnlicensedDependencies"
    /\ Len(ret.reason.dependencies) = 2
    /\ \E i \in 1..2 : ret.reason.dependencies[i].reason.kind = "UnlicensedDependencies"
    /\ \E i \in 1..2 : ret.reason.dependencies[i].reason.kind = "UnlicensedScripts"

(***************************************************************************)
(* C8 *)
(***************************************************************************)
\* C8: tree rendering terminates for every package of every registry,
\* also when the dependencies form a cycle: the call of compute_package_tree
\* eventually returns, with the tree or with an error.
C8_TreeRenderingTerminates == <>(op = "tree" /\ pc \in {"done", "error"})

\* C8 witness: the tree of a package that lies on a cycle of the
\* dependencies the renderer descends into has been rendered, the package
\* itself appearing a second time below its dependency.
C8_Witness ==
    /\ op = "tree" /\ pc = "done"
    /\ OnCycle(root)
    /\ AlreadyAppeared(previous_packages, root)
    /\ Len(previous_packages) >= 2

(***************************************************************************)
(* C9 *)
(***************************************************************************)
RECURSIVE LinesFrom(_, _, _, _)
LinesFrom(strm, i, line, lines) ==
    IF i > Len(strm) THEN Append(lines, line)
    ELSE IF strm[i].kind = "newline"
         THEN LinesFrom(strm, i + 1, <<>>, Append(lines, line))
         ELSE LinesFrom(strm, i + 1, Append(line, strm[i]), lines)

\* The lines of the text of a stream, each the sequence of its pieces.
StreamLines(strm) == LinesFrom(strm, 1, <<>>, <<>>)

\* How many times a connector occurs in a line.
CountSymbol(line, symbol) ==
    Cardinality({ i \in 1..Len(line) : line[i].kind = "symbol" /\ line[i].text = symbol })

\* The only dependency of package p, when p has exactly one, which is not
\* rewritten and resolves to another package of the registry: that package.
OnlyChild(p) ==
    LET parsed == ParseLockDependencies(rewrites, packages[p].lock)
    IN  IF parsed.ok /\ Len(parsed.deps) = 1 /\ ~parsed.deps[1].is_rewritten
        THEN {ResolveLockDependencyToPackage(packages, iter_order, parsed.deps[1])} \ {0, p}
        ELSE {}

HasNoDependency(p) ==
    LET parsed == ParseLockDependencies(rewrites, packages[p].lock)
    IN  ~parsed.ok \/ parsed.deps = <<>>

\* The registry holds the chain root -> B -> C of three packages.
ThreeLevelChain ==
    \E b \in OnlyChild(root) :
        \E c \in OnlyChild(b) : c # root /\ HasNoDependency(c)

\* C9: the tree of a chain A -> B -> C, each node with a single dependency
\* that is not rewritten and resolves in the registry, has one line per
\* package, exactly one last-child connector on the line of each level
\* below the root, and no tee connector on the deepest line.
C9_ChainRendersOneLinePerPackage ==
    (op = "tree" /\ pc = "done" /\ ThreeLevelChain) =>
        LET lines == StreamLines(stream)
        IN  /\ Len(lines) = 3
            /\ \A i \in 2..3 : CountSymbol(lines[i], ELL_SYMBOL) = 1
            /\ CountSymbol(lines[3], TEE_SYMBOL) = 0

(***************************************************************************)
(* C10 *)
(***************************************************************************)
\* The rules of the configured table that list the pair resolve_package
\* was called with.
MatchingRules ==
    { r \in 1..Len(rewrites) :
        \E i \in 1..Len(rewrites[r].originals) :
            /\ rewrites[r].originals[i].name = rp_in[1]
            /\ rewrites[r].originals[i].version = rp_in[2] }

\* C10: resolve_package(name, version) returns true with the replacement
\* name and version of a rule exactly when a rule lists an original whose
\* name and version both equal the inputs, the replacement being the one of
\* such a rule; when no rule lists the pair it returns false with the name
\* and the version it was given.
C10_ResolvePackageMatchesExactly ==
    (op = "rewrite" /\ pc = "done") =>
        /\ ret[1] = (MatchingRules # {})
        /\ ret[1] => \E r \in MatchingRules :
                        ret = <<TRUE, rewrites[r].new_source, rewrites[r].new_version>>
        /\ ~ret[1] => ret = <<FALSE, rp_in[1], rp_in[2]>>

\* C10 witness: a call that returned the replacement of a rule of a table in
\* which another rule lists the same name with a different version or the
\* same version with a different name.
C10_Witness ==
    /\ op = "rewrite" /\ pc = "done"
    /\ ret[1]
    /\ \E r \in 1..Len(rewrites) : \E i \in 1..Len(rewrites[r].originals) :
          /\ r \notin MatchingRules
          /\ \/ rewrites[r].originals[i].name = rp_in[1]
             \/ rewrites[r].originals[i].version = rp_in[2]

\* No rule's replacement pair is listed as an original of a rule.
OriginalsOnly ==
    \A r \in 1..Len(rewrites) : \A k \in 1..Len(rewrites) :
        ~RuleMatches(rewrites[k], rewrites[r].new_source, rewrites[r].new_version)

\* C11: when no rule's replacement pair is itself an original of a rule,
\* resolving the pair resolve_package returned gives was_rewritten = false
\* and that same pair.
C11_ResolveIsIdempotent ==
    (op = "rewrite" /\ pc = "again" /\ OriginalsOnly) =>
        ret = <<FALSE, returned[1][2], returned[1][3]>>

\* C11 witness: the second call ran on the replacement of a rule the first
\* call applied, in a table whose replacements are not originals.
C11_Witness ==
    /\ op = "rewrite" /\ pc = "again"
    /\ OriginalsOnly
    /\ returned[1][1]
    /\ <<returned[1][2], returned[1][3]>> # rp_in

\* The space-separated tokens of a dependency line, the position of its
\* registry-name token (after <patched> when the marker is there), and the
\* pair of the normalized registry name and the version token.
Tokens(line) == Split(line, " ")

RegistryAt(line) ==
    IF Len(Tokens(line)) >= 2 /\ Tokens(line)[2] = Patched THEN 3 ELSE 2

LacksToken(line) == Len(Tokens(line)) < RegistryAt(line) + 1

WellFormed(line) ==
    /\ ~LacksToken(line)
    /\ Tokens(line)[1] # <<>>
    /\ Tokens(line)[RegistryAt(line)] # <<>>
    /\ Tokens(line)[RegistryAt(line) + 1] # <<>>

Declared(line) ==
    Original(FormatRegistryName(Tokens(line)[RegistryAt(line)]),
             Tokens(line)[RegistryAt(line) + 1])

RulesListing(original) ==
    { r \in 1..Len(rewrites) :
        \E i \in 1..Len(rewrites[r].originals) : rewrites[r].originals[i] = original }

LockParsed == op = "lock" /\ pc = "done" /\ arg.dependencies # <<>>

\* C12: for a lock whose dependency lines are all well formed,
\* parse_lock_dependencies returns one entry per line in the lines' order;
\* an entry's path_name is the line's first token, and the pair handed to
\* the rewrite resolution is the normalized registry token (the one after
\* <patched> when the marker is there) with the token after it as version:
\* the entry is rewritten exactly when a rule lists that pair, and carries
\* that pair when it is not.
C12_OneEntryPerLine ==
    (LockParsed /\ \A i \in 1..Len(arg.dependencies[1]) : WellFormed(arg.dependencies[1][i])) =>
        /\ ret.ok
        /\ Len(ret.deps) = Len(arg.dependencies[1])
        /\ \A i \in 1..Len(arg.dependencies[1]) :
              LET line == arg.dependencies[1][i]
              IN  /\ ret.deps[i].path_name = Tokens(line)[1]
                  /\ ret.deps[i].is_rewritten = (RulesListing(Declared(line)) # {})
                  /\ ~ret.deps[i].is_rewritten =>
                        /\ ret.deps[i].registry_name = Declared(line).name
                        /\ VersionToString(ret.deps[i].version) = Declared(line).version

\* C12 witness: two well-formed lines were parsed, a patched one and one
\* whose path name differs from its registry name.
C12_Witness ==
    /\ LockParsed /\ ret.ok
    /\ Len(arg.dependencies[1]) = 2
    /\ RegistryAt(arg.dependencies[1][1]) = 3
    /\ RegistryAt(arg.dependencies[1][2]) = 2
    /\ WellFormed(arg.dependencies[1][1]) /\ WellFormed(arg.dependencies[1][2])
    /\ ret.deps[1].path_name # ret.deps[2].path_name
    /\ Tokens(arg.dependencies[1][2])[1] # Tokens(arg.dependencies[1][2])[2]

\* C13: when a dependency line has no path-name, registry-name (also after
\* <patched>) or version token, parse_lock_dependencies returns an error
\* and no list.
C13_MissingTokenIsError ==
    (LockParsed /\ \E i \in 1..Len(arg.dependencies[1]) : LacksToken(arg.dependencies[1][i])) =>
        ~ret.ok /\ ret.deps = <<>>

\* C13 witness: a lock with a well-formed first line and a second line that
\* stops after <patched> was parsed.
C13_Witness ==
    /\ LockParsed
    /\ Len(arg.dependencies[1]) = 2
    /\ WellFormed(arg.dependencies[1][1])
    /\ LacksToken(arg.dependencies[1][2])
    /\ RegistryAt(arg.dependencies[1][2]) = 3
    /\ ~ret.ok

\* The locks of the menu with a line that lacks a token.
MalformedLocks ==
    { lock \in LockChoices :
        /\ lock.dependencies # <<>>
        /\ \E i \in 1..Len(lock.dependencies[1]) : LacksToken(lock.dependencies[1][i]) }

\* C14: a lock that declares no dependencies is not an error by itself: its
\* parse is not an error, and the callers of parse_lock_dependencies take a
\* branch for it that differs from the one they take for a lock with a
\* malformed line.
C14_NoDependenciesToldApart ==
    (op = "lock" /\ pc = "done" /\ arg.dependencies = <<>>) =>
        /\ ret.ok
        /\ \A lock \in MalformedLocks :
              CallerBranch(ret) # CallerBranch(ParseLockDependencies(rewrites, lock))

\* C15: every parsed dependency with is_rewritten = true carries the name
\* and the version of the replacement of a rule that lists the line's
\* normalized name and version; every one with is_rewritten = false carries
\* the normalized name and the version the lock states.
C15_RewrittenCarriesReplacement ==
    (LockParsed /\ ret.ok) =>
        \A i \in 1..Len(ret.deps) :
            LET line == arg.dependencies[1][i]
                dep  == ret.deps[i]
            IN  /\ dep.is_rewritten =>
                      \E r \in RulesListing(Declared(line)) :
                          /\ dep.registry_name = rewrites[r].new_source
                          /\ dep.version = PackageVersionNew(rewrites[r].new_version)
                /\ ~dep.is_rewritten =>
                      /\ dep.registry_name = Declared(line).name
                      /\ dep.version = PackageVersionNew(Declared(line).version)

\* C15 witness: a parsed list with a rewritten dependency, whose version
\* changed from a commit to a semantic version, and one that is not
\* rewritten.
C15_Witness ==
    /\ LockParsed /\ ret.ok
    /\ Len(ret.deps) = 2
    /\ ret.deps[1].is_rewritten
    /\ ret.deps[1].version.kind = "SemVer"
    /\ PackageVersionNew(Declared(arg.dependencies[1][1]).version).kind = "Commit"
    /\ ~ret.deps[2].is_rewritten

\* The positions of the scope separator in a name.
Slashes(name) == { i \in 1..Len(name) : name[i] = "/" }

\* A delimiter of the kebab conversion next to the scope separator.
DelimiterAtSlash(name) ==
    \E i \in Slashes(name) :
        \/ i > 1 /\ IsDelimiter(name[i - 1])
        \/ i < Len(name) /\ IsDelimiter(name[i + 1])

Named == op = "name" /\ pc = "done" /\ ret.ok

C17_MalformedScopeFails ==
    (op = "name" /\ pc = "done" /\ Cardinality(Slashes(arg.name)) > 1) => ~ret.ok

\* The packages with the dependency's registry name, and those among them
\* with the dependency's version.
NameMatches ==
    { r \in 1..Len(packages) : packages[r].name.registry_name = arg.registry_name }

ExactMatches ==
    { r \in NameMatches : packages[r].lock.version = VersionToString(arg.version) }

\* C18: resolve_lock_dependency_to_package returns a package with the
\* dependency's registry name and version when one exists; when none exists
\* it falls back to a package with the dependency's registry name; it
\* returns None only when no package has that registry name.
C18_ExactThenNameOnly ==
    (op = "resolve" /\ pc = "done") =>
        /\ ExactMatches # {} => ret \in ExactMatches
        /\ ExactMatches = {} => ret \in NameMatches \cup {0}
        /\ ret = 0 => NameMatches = {}

\* The dependency lines a package declares.
DeclaredLines(ref) ==
    IF packages[ref].lock.dependencies = <<>> THEN <<>>
    ELSE packages[ref].lock.dependencies[1]

\* Whether line i of package ref cannot be parsed or cannot be resolved.
Undeclarable(ref, i) ==
    \/ ~ParseDependency(rewrites, DeclaredLines(ref)[i]).ok
    \/ ResolveLockDependencyToPackage(packages, iter_order,
                                      ParseDependency(rewrites, DeclaredLines(ref)[i])) = 0

\* Whether the graph has an edge from package ref to the package line i of
\* its lock resolves to.
HasEdgeFor(ref, i) ==
    \E k \in 1..Len(package_graph.edges) :
        package_graph.edges[k] =
            <<node_indexes[ref],
              node_indexes[ResolveLockDependencyToPackage(
                               packages, iter_order,
                               ParseDependency(rewrites, DeclaredLines(ref)[i]))]>>

\* C19: construct_graph_edges never silently drops a declared dependency:
\* when it returns Ok, every dependency line of every package has an edge;
\* when a line cannot be parsed or its dependency cannot be resolved, it
\* returns an error that names the dependant package.
C19_NoDependencyDropped ==
    (op = "registry" /\ pc = "built") =>
        /\ ret.kind = "Ok" =>
              \A ref \in DOMAIN packages : \A i \in 1..Len(DeclaredLines(ref)) :
                  ~Undeclarable(ref, i) /\ HasEdgeFor(ref, i)
        /\ (\E ref \in DOMAIN packages : \E i \in 1..Len(DeclaredLines(ref)) :
                Undeclarable(ref, i)) =>
              /\ ret.kind = "Err"
              /\ \E ref \in DOMAIN packages : \E i \in 1..Len(DeclaredLines(ref)) :
                    /\ Undeclarable(ref, i)
                    /\ ret.package = packages[ref].name.path_name

\* The references the graph's nodes carry.
NodeRefs == { package_graph.nodes[k] : k \in 1..Len(package_graph.nodes) }

\* C20: after any sequence of discover_packages_at_index calls every
\* package holds a distinct reference, references grow in the order of
\* registration and are never reused, package_count is the number of
\* registered packages, which is one per subdirectory with a lock manifest
\* of the indexes given, and the package map, the node-index map and the
\* graph's nodes hold exactly the same references.
C20_RegistryConsistent ==
    op = "registry" =>
        /\ Cardinality(DOMAIN packages) = Len(package_graph.nodes)
        /\ \A j, k \in 1..Len(package_graph.nodes) :
              j < k => package_graph.nodes[j] < package_graph.nodes[k]
        /\ package_count = Cardinality(DOMAIN packages)
        /\ package_count = arg.locks
        /\ DOMAIN node_indexes = DOMAIN packages
        /\ NodeRefs = DOMAIN packages
        /\ \A ref \in DOMAIN packages :
              package_graph.nodes[node_indexes[ref] + 1] = ref

\* C21: the registry holds at most one package per path name: no two
\* registered packages share a path name, whatever indexes were discovered.
C21_OnePackagePerPathName ==
    op = "registry" =>
        \A r1, r2 \in DOMAIN packages :
            packages[r1].name.path_name = packages[r2].name.path_name => r1 = r2

\* C22: a subdirectory whose package cannot be loaded is fatal for that
\* package only: every package a subdirectory of a discovered index holds is
\* registered, wherever it stands in the enumeration order, and a failure
\* is reported with the failing subdirectory's path.
C22_SiblingsStillDiscovered ==
    (op = "registry" /\ pc = "open") =>
        /\ \A package \in arg.offered :
              \E ref \in DOMAIN packages : packages[ref] = package
        /\ (ret.kind = "Err" /\ ret.path # <<>>) => ret.path = <<"X">>

\* The packages on the current path of the rendering: the packages of the
\* calls that have not returned.
OnCurrentPath == { stack[i].package : i \in 1..Len(stack) }

\* The renderer is at a dependency it looks up in the registry and finds.
AtFoundDependency ==
    /\ op = "tree" /\ pc = "run"
    /\ stack # <<>>
    /\ stack[1].entered
    /\ stack[1].next <= Len(stack[1].dependencies)
    /\ ~PrintedAsExternal(stack[1].dependencies[stack[1].next])
    /\ FindByRegistryNameAndVersion(
           packages, iter_order,
           stack[1].dependencies[stack[1].next].registry_name,
           VersionToString(stack[1].dependencies[stack[1].next].version)) # 0

FoundDependency ==
    FindByRegistryNameAndVersion(
        packages, iter_order,
        stack[1].dependencies[stack[1].next].registry_name,
        VersionToString(stack[1].dependencies[stack[1].next].version))

\* C23: a dependency that already appeared on the current path from the
\* root is printed as a line and not descended into, and the rendering
\* goes on with its next sibling; a dependency that is not on the current
\* path (also one that appeared on a finished branch) is descended into.
C23_LeafOnCurrentPathOnly ==
    [][AtFoundDependency =>
          IF FoundDependency \in OnCurrentPath
          THEN /\ Len(stream') > Len(stream)
               /\ stack' = [stack EXCEPT ![1].next = @ + 1]
          ELSE /\ Len(stack') = Len(stack) + 1
               /\ stack'[1].package = FoundDependency]_vars

\* The rules of the configured table that list the pair.
ConfiguredMatches ==
    { r \in 1..Len(arg) : RuleMatches(arg[r], rp_in[1], rp_in[2]) }

\* C24: when two rules list the same original pair, resolve_package returns
\* the replacement of the first of them in the configured table, in every
\* process run with that table.
C24_FirstConfiguredRuleWins ==
    (op = "rewrite" /\ pc = "done" /\ Cardinality(ConfiguredMatches) >= 2) =>
        LET first == CHOOSE r \in ConfiguredMatches : \A k \in ConfiguredMatches : r <= k
        IN  ret = <<TRUE, arg[first].new_source, arg[first].new_version>>

\* The lines of the source with their comment markers stripped.
Stripped == [i \in 1..Len(arg) |-> TrimCommentPadding(arg[i])]

StartsWithLocalOrType(line) == line # <<>> /\ (line[1] = "local" \/ line[1] = "type")

\* Blank lines and lines that contain `upstream` (in any letter case) are
\* skipped before the header, unless they start with `local` or `type`.
Skipped(line) ==
    /\ ~StartsWithLocalOrType(line)
    /\ line = <<>> \/ \E k \in 1..Len(line) : line[k] \in {"upstream", "Upstream"}

\* The first line that is not skipped, Len(arg) + 1 when there is none.
FirstKept ==
    IF \E i \in 1..Len(arg) : ~Skipped(Stripped[i])
    THEN CHOOSE i \in 1..Len(arg) :
             ~Skipped(Stripped[i]) /\ \A j \in 1..(i - 1) : Skipped(Stripped[j])
    ELSE Len(arg) + 1

\* Whether a line ends the header.
EndsHeader(line) ==
    StartsWithLocalOrType(line) \/ \E k \in 1..(Len(line) - 1) : line[k] = "]" /\ line[k + 1] = "]"

\* The first line after the header's first line that ends it.
HeaderEnd ==
    IF \E i \in (FirstKept + 1)..Len(arg) : EndsHeader(Stripped[i])
    THEN CHOOSE i \in (FirstKept + 1)..Len(arg) :
             EndsHeader(Stripped[i]) /\ \A j \in (FirstKept + 1)..(i - 1) : ~EndsHeader(Stripped[j])
    ELSE Len(arg) + 1

\* C25: extract_license_header skips blank and upstream lines before the
\* header; when the first line it does not skip starts with `local` or
\* `type`, or there is no such line, the header is empty; otherwise the
\* header is the stripped lines from that line up to, and excluding, the
\* first later line that contains `]]` or starts with `local` or `type`,
\* joined with newlines and trimmed.
C25_HeaderIsFirstCommentBlock ==
    (op = "header" /\ pc = "done") =>
        IF FirstKept > Len(arg) \/ StartsWithLocalOrType(Stripped[FirstKept])
        THEN ret = <<>>
        ELSE ret = Trim(Join(SubSeq(Stripped, FirstKept, HeaderEnd - 1), "\n"))

\* C25 witness: a source with an upstream line, a header line and then a
\* line that ends the header gave a header that is not empty.
C25_Witness ==
    /\ op = "header" /\ pc = "done"
    /\ Len(arg) = 3
    /\ FirstKept = 2
    /\ HeaderEnd = 3
    /\ ret # <<>>

\* The scores of the reference texts of a license, and all the scores.
ScoresOfLicense(license_name) ==
    UNION { { arg.texts[l].scores[t] : t \in 1..Len(arg.texts[l].scores) } :
              l \in { k \in 1..Len(arg.texts) : arg.texts[k].name = license_name } }

AllScores == ScoresOfLicense("MIT") \cup ScoresOfLicense("Apache-2.0")

IncludeInExtractorEmit(table, package, license) ==
    IF IsPackageRewritten(table, package)
    THEN [kind |-> "NotIncluded", reason |-> "OverwrittenPackage"]
    ELSE IF license.kind = "Unlicensed"
    THEN [kind |-> "NotIncluded", reason |-> "Unlicensed"]
    ELSE [kind |-> "Included", reason |-> "None"]

\* C27 (as claimed): a package is reported Included only if it is not
\* rewritten and its license check returned Licensed; a package whose check
\* ended with an error is not reported Included.
C27_IncludedOnlyIfLicensed ==
    (op = "license" /\ pc \in {"done", "error"}) =>
        (IncludeInExtractorEmit(rewrites, packages[root], ret).kind = "Included" =>
            /\ ~IsPackageRewritten(rewrites, packages[root])
            /\ ret.kind = "Licensed")

(***************************************************************************)
(* C28 *)
(***************************************************************************)
\* C28 (as claimed): the package resolve_lock_dependency_to_package returns
\* for a dependency has the dependency's registry name, whether the
\* dependency carries a semantic version or a commit hash.
C28_ResolvedPackageHasDependencyName ==
    (op = "resolve" /\ pc = "done" /\ ret # 0) =>
        packages[ret].name.registry_name = arg.registry_name

(***************************************************************************)
(* C29 *)
(***************************************************************************)
\* The packages the thunk-name keyed registry reaches from the packages of
\* `from` through dependencies, these included.
RECURSIVE WriteClosure(_)
WriteClosure(from) ==
    LET more == from \cup UNION { { metas[p].dependencies[i] :
                                      i \in 1..Len(metas[p].dependencies) } :
                                  p \in from \cap DOMAIN metas }
    IN  IF more = from THEN from ELSE WriteClosure(more)

RootsOf(roots) == { roots[i] : i \in 1..Len(roots) }

\* C29 (as claimed): the collection of the packages to write never recurses
\* without end, on a registry with a dependency cycle either, and when it
\* ends without an error the packages to write are the root packages and
\* every package they reach through dependencies.
C29_CollectionTerminatesWithClosure ==
    op = "write" =>
        /\ pc # "overflow"
        /\ pc = "done" => packages_to_write = WriteClosure(RootsOf(arg))

\* On the registries whose dependencies form no cycle the collection ends,
\* and ends with the closure.
WriteOnCycle(p) ==
    p \in WriteClosure({ metas[p].dependencies[i] : i \in 1..Len(metas[p].dependencies) })

WriteAcyclicHolds ==
    (op = "write" /\ \A p \in DOMAIN metas : ~WriteOnCycle(p)) =>
        /\ pc # "overflow"
        /\ pc = "done" => packages_to_write = WriteClosure(RootsOf(arg))

(***************************************************************************)
(* C30 *)
(***************************************************************************)
\* The prefix of a line as claimed: the last level is a connector whatever
\* the level is.
ClaimedPrefix(ind, final_line) ==
    [i \in 1..Len(ind) |->
        Piece("symbol",
              IF i < Len(ind)
              THEN (IF ind[i] = "Some" THEN DOWN_SYMBOL ELSE BLANK_SYMBOL)
              ELSE (IF final_line THEN ELL_SYMBOL ELSE TEE_SYMBOL))]

\* The prefix of a line as written: a level that is None is three spaces at
\* every depth; a level that is Some is the down symbol when a level
\* follows it and the connector of final_line when it is the last.
WrittenPrefix(ind, final_line) ==
    [i \in 1..Len(ind) |->
        Piece("symbol",
              CASE ind[i] = "None" -> BLANK_SYMBOL
                [] ind[i] = "Some" /\ i < Len(ind) -> DOWN_SYMBOL
                [] ind[i] = "Some" /\ i = Len(ind) /\ final_line -> ELL_SYMBOL
                [] ind[i] = "Some" /\ i = Len(ind) /\ ~final_line -> TEE_SYMBOL)]

TextPieces(text) == IF text = <<>> THEN <<>> ELSE <<Piece("text", text)>>

\* The stream after the lines of str from the k-th on, each after a line
\* break unless it is the first line ever written, and after the prefix.
RECURSIVE AppendedAfterFirst(_, _, _, _, _)
AppendedAfterFirst(strm, str, k, prefix, first) ==
    IF k > Len(str) THEN strm
    ELSE AppendedAfterFirst(strm
                              \o (IF first THEN <<>> ELSE <<Piece("newline", "\n")>>)
                              \o prefix \o TextPieces(str[k]),
                            str, k + 1, prefix, FALSE)

\* The stream after the lines of str from the k-th on, each after a line
\* break unless the text of the stream is empty, and after the prefix.
RECURSIVE AppendedToText(_, _, _, _)
AppendedToText(strm, str, k, prefix) ==
    IF k > Len(str) THEN strm
    ELSE AppendedToText(strm
                          \o (IF strm = <<>> THEN <<>> ELSE <<Piece("newline", "\n")>>)
                          \o prefix \o TextPieces(str[k]),
                        str, k + 1, prefix)

\* A step of write_line: the calls counted in arg go up by one.
WriteLineStep == op = "stream" /\ arg'.calls = arg.calls + 1

\* C30 (as claimed): every line a write_line call writes goes after a line
\* break, but for the very first line written to the stream, and after one
\* symbol per indent level: the down symbol or three spaces for a level that
\* is not the last, the connector of final_line for the last.
C30_LinePrefixedPerLevel ==
    [][WriteLineStep =>
          stream' = AppendedAfterFirst(stream, arg'.str, 1,
                                       ClaimedPrefix(indents, arg'.final_line),
                                       arg.calls = 0)]_vars

\* C30 (amended): every line a write_line call writes goes after a line
\* break exactly when the text of the stream is not empty, and after one
\* symbol per indent level: three spaces for a level that is None, the last
\* level included; for a level that is Some the down symbol when it is not
\* the last and the connector of final_line when it is.
C30_LinePrefixedPerSomeLevel ==
    [][WriteLineStep =>
          stream' = AppendedToText(stream, arg'.str, 1,
                                   WrittenPrefix(indents, arg'.final_line))]_vars

\* C30 witness: the second line of the stream was written under the levels
\* Some and None: a line break, the down symbol, three spaces, the text.
C30_Witness ==
    /\ op = "stream"
    /\ Len(StreamLines(stream)) >= 2
    /\ StreamLines(stream)[2] = <<Piece("symbol", DOWN_SYMBOL), Piece("symbol", BLANK_SYMBOL),
                                  Piece("text", <<"x">>)>>

====
